---- MODULE Spec2Model ----
(***************************************************************************)
(* A model of the dex-brain task dashboard (the Home component and its     *)
(* module-level helpers): the scoring engine (daysUntilDeadline,           *)
(* calculateScore, calculateLevel), the sort state (toggleSort,            *)
(* clearFilters), the view pipeline (filteredSortedTasks), the filter      *)
(* controls, the load effect on localStorage, the form and the modals,     *)
(* the mutations (handleSubmit, updateTaskStatus, performDelete) and the   *)
(* keyboard shortcuts (onKey).                                             *)
(*                                                                         *)
(* Time is counted in hours on an absolute axis; MS_PER_DAY is therefore   *)
(* 24 of these units.  A deadline string is represented by what            *)
(* `new Date(deadline + "T00:00:00")` makes of it: absent (undefined),     *)
(* the empty string, a text that does not parse (NaN), or a calendar day.  *)
(***************************************************************************)
EXTENDS Integers, Sequences, FiniteSets, TLC

VARIABLES
    now,          \* the wall clock read by `new Date()`, in hours
    dst,          \* hours by which the local UTC offset changes on DstDay (0: none)
    task,         \* the scoring engine's input
    lastEval,     \* the latest evaluation of calculateScore / calculateLevel
    prevEval,     \* the evaluation before it
    probe,        \* the integer handed to calculateLevel on its own
    probeLevel,   \* what calculateLevel returned for probe
    tasks,        \* useState<Task[]>                       (part_000:105)
    activeFilter, \* useState<string>("All Tasks")          (part_000:110)
    search,       \* useState("")                           (part_000:111)
    statusFilter, \* useState<string>("All")                (part_000:112)
    areaFilter,   \* useState<string>("All")                (part_000:113)
    hideDone,     \* useState(false)                        (part_000:114)
    sortBy,       \* useState<string | null>(null)          (part_000:115)
    sortDir,      \* useState<"asc" | "desc">("desc")       (part_000:116)
    lastKey,      \* the key of the latest toggleSort call ("" after clearFilters)
    streak,       \* how many toggleSort calls in a row chose lastKey
    storage,      \* localStorage's entry under STORAGE_KEY
    mounted,      \* whether the component's mount effects have run
    crashed,      \* whether an exception escaped a handler or an effect
    isModalOpen,  \* useState(false)                        (part_000:106)
    editingTask,  \* useState<Task | null>(null)            (part_000:107)
    viewingTask,  \* useState<Task | null>(null)            (part_000:108)
    form,         \* useState<TaskForm>(defaultForm)        (part_000:109)
    showDeleteConfirm, \* useState(false)                   (part_000:117)
    deleteTargetId,    \* useState<string | null>(null)     (part_000:118)
    nextId,       \* how many identifiers crypto.randomUUID() has handed out, plus one
    lastOp,       \* the handler or effect that ran last, with its arguments
    snapshot,     \* the task list at the latest reload, until something else happens
    showInsights, \* useState(false)                        (part_000:119)
    otherTasks,   \* the tasks hook of a second tab on the same localStorage
    otherMounted  \* whether the second tab's mount effects have run

clockVars == <<now, dst>>
scoreVars == <<task, lastEval, prevEval>>
probeVars == <<probe, probeLevel>>
viewVars  == <<tasks, activeFilter, search, statusFilter, areaFilter, hideDone>>
sortVars  == <<sortBy, sortDir, lastKey, streak>>
filterVars == <<activeFilter, search, statusFilter, areaFilter, hideDone>>
modalVars == <<isModalOpen, editingTask, viewingTask, form, showDeleteConfirm, deleteTargetId>>
storeVars == <<storage, mounted, crashed, nextId>>
traceVars == <<lastOp, snapshot>>
tabVars   == <<otherTasks, otherMounted>>
auxVars   == <<showInsights, tabVars>>
appVars   == <<modalVars, storeVars, traceVars, auxVars>>
vars == <<clockVars, scoreVars, probeVars, viewVars, sortVars, appVars>>

(***************************************************************************)
(* Bounds of the model.                                                    *)
(***************************************************************************)
\* the clock runs from 0 to MaxNow, in steps of TickHours
MaxNow == 36
TickHours == 12
\* deadlines of the scoring inputs lie on the days -DaysBack .. DaysAhead
DaysBack == 1
DaysAhead == 2
\* the day from which the changed UTC offset applies
DstDay == 1
\* calculateLevel is probed on -ProbeMax .. ProbeMax
ProbeMax == 950
\* the longest task list of the view pipeline's inputs
MaxTasks == 3
\* the most toggleSort calls in a row on one key
MaxStreak == 3
\* the longest task list the filter controls are exercised on
MaxFiltered == 2
\* the most tasks created in a run
MaxCreates == 2
\* the clock of the store's runs goes from 0 to MaxStoreNow, in steps of TickHours
MaxStoreNow == 12

\* far deadlines lie on the days 49 .. MaxFarDay
MaxFarDay == 52
MaxControls == 1

(***************************************************************************)
(* Program constants.                                                      *)
(***************************************************************************)
\* const MS_PER_DAY = 1000 * 60 * 60 * 24, in hours
MS_PER_DAY == 24

Statuses == {"Inbox", "Doing", "Waiting", "Done"}
Levels == {"Critical", "High", "Medium", "Low"}
Scale == 1..5

(***************************************************************************)
(* Optional numbers: `number | null`.                                      *)
(***************************************************************************)
Null == [isNull |-> TRUE, v |-> 0]
Some(n) == [isNull |-> FALSE, v |-> n]

(***************************************************************************)
(* Deadlines.                                                              *)
(***************************************************************************)
Undefined == [kind |-> "undefined", day |-> 0]
EmptyText == [kind |-> "empty", day |-> 0]
Unparseable == [kind |-> "invalid", day |-> 0]
DateOf(d) == [kind |-> "date", day |-> d]

\* Math.ceil(a / b) for b > 0; \div rounds towards minus infinity
Ceil(a, b) == -((-a) \div b)

\* The instant of local midnight opening calendar day d: what both
\* new Date(y, m, d) and new Date("<date>T00:00:00") denote.
Midnight(d, shift) == d * MS_PER_DAY - (IF d >= DstDay THEN shift ELSE 0)

\* The calendar day the instant t falls in.
LocalDay(t, shift) ==
    CHOOSE d \in ((t \div MS_PER_DAY) - 1)..((t \div MS_PER_DAY) + 1) :
        Midnight(d, shift) <= t /\ t < Midnight(d + 1, shift)

startOfDay(t, shift) == Midnight(LocalDay(t, shift), shift)

\* a variant that floors the hours elapsed since this instant
daysUntilDeadline_elapsedFloor(deadline, t, shift) ==
    IF deadline.kind \in {"undefined", "empty", "invalid"} THEN Null
    ELSE Some((Midnight(deadline.day, shift) - t) \div MS_PER_DAY)

daysUntilDeadline(deadline, t, shift) ==
    IF deadline.kind \in {"undefined", "empty"} THEN Null
    ELSE IF deadline.kind = "invalid" THEN Null
    ELSE LET target == Midnight(deadline.day, shift)
             today == startOfDay(t, shift)
             diff == target - today
         IN  Some(Ceil(diff, MS_PER_DAY))

\* a variant without the early return for Done
calculateScore_noDoneReturn(t, at, shift) ==
    LET base == t.impact * 2 + t.urgency
        days == daysUntilDeadline(t.deadline, at, shift)
        withDeadline == IF ~days.isNull THEN base + (1000 - days.v * 20) ELSE base
    IN  IF t.status = "Waiting" THEN withDeadline - 10 ELSE withDeadline

\* a variant whose Waiting penalty sits in the else-branch of the deadline test
calculateScore_waitingElse(t, at, shift) ==
    IF t.status = "Done" THEN 0
    ELSE LET base == t.impact * 2 + t.urgency
             days == daysUntilDeadline(t.deadline, at, shift)
         IN  IF ~days.isNull THEN base + (1000 - days.v * 20)
             ELSE IF t.status = "Waiting" THEN base - 10 ELSE base

\* a variant that forgets to double the impact
calculateScore_plainSum(t, at, shift) ==
    IF t.status = "Done" THEN 0
    ELSE LET base == t.impact + t.urgency
             days == daysUntilDeadline(t.deadline, at, shift)
             withDeadline == IF ~days.isNull THEN base + (1000 - days.v * 20) ELSE base
         IN  IF t.status = "Waiting" THEN withDeadline - 10 ELSE withDeadline

\* a variant that adds a bonus for quick tasks
calculateScore_readsEffort(t, at, shift) ==
    IF t.status = "Done" THEN 0
    ELSE LET base == t.impact * 2 + t.urgency + (IF t.effort = "15m" THEN 1 ELSE 0)
             days == daysUntilDeadline(t.deadline, at, shift)
             withDeadline == IF ~days.isNull THEN base + (1000 - days.v * 20) ELSE base
         IN  IF t.status = "Waiting" THEN withDeadline - 10 ELSE withDeadline

\* a variant that subtracts 10 per day
calculateScore_tenPerDay(t, at, shift) ==
    IF t.status = "Done" THEN 0
    ELSE LET days == daysUntilDeadline(t.deadline, at, shift)
             base == t.impact * 2 + t.urgency
             dated == IF ~days.isNull THEN base + (1000 - days.v * 10) ELSE base
         IN  IF t.status = "Waiting" THEN dated - 10 ELSE dated

\* a variant that never returns less than 0
calculateScore_clamped(t, at, shift) ==
    IF t.status = "Done" THEN 0
    ELSE LET days == daysUntilDeadline(t.deadline, at, shift)
             base == t.impact * 2 + t.urgency
             dated == IF ~days.isNull THEN base + (1000 - days.v * 20) ELSE base
             score == IF t.status = "Waiting" THEN dated - 10 ELSE dated
         IN  IF score < 0 THEN 0 ELSE score

calculateScore(t, at, shift) ==
    IF t.status = "Done" THEN 0
    ELSE LET base == t.impact * 2 + t.urgency
             days == daysUntilDeadline(t.deadline, at, shift)
             withDeadline == IF ~days.isNull THEN base + (1000 - days.v * 20) ELSE base
         IN  IF t.status = "Waiting" THEN withDeadline - 10 ELSE withDeadline

\* a variant with strict comparisons
calculateLevel_strict(score) ==
    IF score > 900 THEN "Critical"
    ELSE IF score > 30 THEN "High"
    ELSE IF score > 10 THEN "Medium"
    ELSE "Low"

calculateLevel(score) ==
    IF score >= 900 THEN "Critical"
    ELSE IF score >= 30 THEN "High"
    ELSE IF score >= 10 THEN "Medium"
    ELSE "Low"

(***************************************************************************)
(* Tasks.                                                                  *)
(***************************************************************************)
Areas == {"Infra", "Backend", "DevOps", "Certificates", "DNS", "Monitoring",
          "Research", "Personal"}
Types == {"Ticket", "Microtask", "Investigation", "Follow-up", "Meeting"}
Origins == {"Jira", "Slack", "Meeting", "Boss", "Self"}
Efforts == {"5m", "15m", "30m", "1h+", "Research"}

\* type Task; a title is the sequence of its characters
Task(id, createdAt, title, description, area, type, origin, impact, urgency, effort, deadline, status) ==
    [id |-> id, createdAt |-> createdAt, title |-> title,
     description |-> description, area |-> area, type |-> type,
     origin |-> origin, impact |-> impact, urgency |-> urgency,
     effort |-> effort, deadline |-> deadline, status |-> status]

\* The fields the score is not meant to read, in two variants.
OtherFields ==
    { [id |-> "id-1", createdAt |-> 1, title |-> <<"a">>, description |-> "",
       area |-> "Infra", type |-> "Ticket", origin |-> "Self", effort |-> "15m"],
      [id |-> "id-2", createdAt |-> 2, title |-> <<"B", "b">>, description |-> "x",
       area |-> "DNS", type |-> "Meeting", origin |-> "Jira", effort |-> "1h+"] }

WithOther(t, o) ==
    Task(o.id, o.createdAt, o.title, o.description, o.area, o.type, o.origin,
         t.impact, t.urgency, o.effort, t.deadline, t.status)

Deadlines ==
    {Undefined, EmptyText, Unparseable} \cup {DateOf(d) : d \in (-DaysBack)..DaysAhead}

DstShifts == {-1, 0, 1}

\* Every input of the scoring engine: the whole range of the four fields.
ScoreInputs ==
    { Task("id-1", 1, <<"a">>, "", "Infra", "Ticket", "Self", i, u, "15m", d, s) :
        i \in Scale, u \in Scale, d \in Deadlines, s \in Statuses }

NoEval == [done |-> FALSE, at |-> 0, score |-> 0, level |-> "",
           task |-> Task("", 0, <<>>, "", "Infra", "Ticket", "Self", 1, 1, "15m",
                         Undefined, "Inbox")]

(***************************************************************************)
(* Strings.  A title or a search text is the sequence of its characters,   *)
(* over the alphabet " ", "a", "A", "b", "B"; the values of the enumerated *)
(* fields are TLA+ strings.                                                *)
(***************************************************************************)
Sign(n) == IF n < 0 THEN -1 ELSE IF n > 0 THEN 1 ELSE 0

\* String.prototype.toLowerCase
Lower(c) == IF c = "A" THEN "a" ELSE IF c = "B" THEN "b" ELSE c
toLowerCase(cs) == [i \in 1..Len(cs) |-> Lower(cs[i])]

\* String.prototype.trim
RECURSIVE trimStart(_)
trimStart(cs) ==
    IF cs # <<>> /\ Head(cs) = " " THEN trimStart(Tail(cs)) ELSE cs
RECURSIVE trimEnd(_)
trimEnd(cs) ==
    IF cs # <<>> /\ cs[Len(cs)] = " " THEN trimEnd(SubSeq(cs, 1, Len(cs) - 1)) ELSE cs
trim(cs) == trimEnd(trimStart(cs))

\* String.prototype.includes
includes(cs, q) ==
    \E k \in 0..(Len(cs) - Len(q)) : SubSeq(cs, k + 1, k + Len(q)) = q

\* The values of area, type, effort and status in the order of the default
\* collation: digits before letters, letters compared without regard to case
\* first ("DevOps" < "DNS", "Inbox" < "Infra").
CollationOrder ==
    << "15m", "1h+", "30m", "5m", "Backend", "Certificates", "DevOps", "DNS",
       "Doing", "Done", "Follow-up", "Inbox", "Infra", "Investigation",
       "Meeting", "Microtask", "Monitoring", "Personal", "Research", "Ticket",
       "Waiting" >>
EnumRank(e) == CHOOSE i \in 1..Len(CollationOrder) : CollationOrder[i] = e

\* The weights of one character: the letter first, its case second.
Primary(c) == IF c = " " THEN 0 ELSE IF Lower(c) = "a" THEN 1 ELSE 2
Tertiary(c) == IF c \in {"A", "B"} THEN 1 ELSE 0

\* the first difference of two sequences of weights decides; a proper prefix
\* comes first
RECURSIVE Lex(_, _)
Lex(x, y) ==
    IF x = <<>> /\ y = <<>> THEN 0
    ELSE IF x = <<>> THEN -1
    ELSE IF y = <<>> THEN 1
    ELSE IF Head(x) # Head(y) THEN Sign(Head(x) - Head(y))
    ELSE Lex(Tail(x), Tail(y))

\* A string value held by the comparator.
EnumString(e) == [enum |-> TRUE, e |-> e, cs |-> <<>>]
CharString(cs) == [enum |-> FALSE, e |-> "", cs |-> cs]

\* String.prototype.localeCompare
localeCompare(x, y) ==
    IF x.enum /\ y.enum THEN Sign(EnumRank(x.e) - EnumRank(y.e))
    ELSE LET px == [i \in 1..Len(x.cs) |-> Primary(x.cs[i])]
             py == [i \in 1..Len(y.cs) |-> Primary(y.cs[i])]
             tx == [i \in 1..Len(x.cs) |-> Tertiary(x.cs[i])]
             ty == [i \in 1..Len(y.cs) |-> Tertiary(y.cs[i])]
         IN  IF Lex(px, py) # 0 THEN Lex(px, py) ELSE Lex(tx, ty)

(***************************************************************************)
(* Numbers with infinities, as the comparator computes with them.          *)
(***************************************************************************)
Num(n) == [inf |-> 0, nan |-> FALSE, v |-> n]
POSITIVE_INFINITY == [inf |-> 1, nan |-> FALSE, v |-> 0]
NEGATIVE_INFINITY == [inf |-> -1, nan |-> FALSE, v |-> 0]
NaN == [inf |-> 0, nan |-> TRUE, v |-> 0]

\* x - y
Minus(x, y) ==
    IF x.nan \/ y.nan THEN NaN
    ELSE IF x.inf = 0 /\ y.inf = 0 THEN Num(x.v - y.v)
    ELSE IF x.inf = y.inf THEN NaN
    ELSE IF x.inf # 0 THEN x
    ELSE IF y.inf = 1 THEN NEGATIVE_INFINITY ELSE POSITIVE_INFINITY

\* -x
Negate(x) == Minus(Num(0), x)

\* x === y
StrictEq(x, y) == ~x.nan /\ ~y.nan /\ x.inf = y.inf /\ (x.inf = 0 => x.v = y.v)

\* the sign Array.prototype.sort reads off a comparator's result (NaN is +0)
SignOf(x) == IF x.nan THEN 0 ELSE IF x.inf # 0 THEN x.inf ELSE Sign(x.v)

\* a ?? b for a : number | null
OrElse(a, b) == IF a.isNull THEN b ELSE Num(a.v)

(***************************************************************************)
(* The form, the modals and the store.                                     *)
(***************************************************************************)
\* const defaultForm: TaskForm
defaultForm ==
    [title |-> <<>>, description |-> "", area |-> "Infra", type |-> "Ticket",
     origin |-> "Self", impact |-> 3, urgency |-> 3, effort |-> "15m",
     deadline |-> EmptyText, status |-> "Inbox"]

\* Task | null
NoTask == [isNull |-> TRUE, t |-> NoEval.task]
TheTask(t) == [isNull |-> FALSE, t |-> t]

\* a handler or an effect with its arguments, as lastOp records it
Op(op, arg, tag) == [op |-> op, arg |-> arg, tag |-> tag]
NoOp == Op("", "", "")

NoSnapshot == [taken |-> FALSE, after |-> "", tasks |-> <<>>]

\* What localStorage.getItem(STORAGE_KEY) returns: null, or a text, which
\* is empty, not JSON, JSON of something that is no array, or JSON of an
\* array of objects.
Blob(kind, items) == [kind |-> kind, items |-> items]
NoBlob == Blob("null", <<>>)

\* JSON.stringify leaves out a property whose value is undefined.
Absent == [kind |-> "absent", day |-> 0]
toJSON(t) == IF t.deadline = Undefined THEN [t EXCEPT !.deadline = Absent] ELSE t
fromJSON(o) == IF o.deadline = Absent THEN [o EXCEPT !.deadline = Undefined] ELSE o

\* JSON.stringify(tasks)
JSONstringify(ts) == Blob("array", [i \in 1..Len(ts) |-> toJSON(ts[i])])

\* JSON.parse(stored): it throws, or returns a value that is an array or not
JSONparse(blob) ==
    CASE blob.kind = "array" ->
           [threw |-> FALSE, isArray |-> TRUE,
            value |-> [i \in 1..Len(blob.items) |-> fromJSON(blob.items[i])]]
      [] blob.kind = "object" -> [threw |-> FALSE, isArray |-> FALSE, value |-> <<>>]
      [] OTHER -> [threw |-> TRUE, isArray |-> FALSE, value |-> <<>>]

\* the insights panel is hidden, and no second tab is open
IdleAux ==
    /\ showInsights = FALSE
    /\ otherTasks = <<>>
    /\ otherMounted = FALSE

\* the state of the hooks before the component is mounted
FreshModals ==
    /\ isModalOpen = FALSE
    /\ editingTask = NoTask
    /\ viewingTask = NoTask
    /\ form = defaultForm
    /\ showDeleteConfirm = FALSE
    /\ deleteTargetId = "null"

IdleApp ==
    /\ FreshModals
    /\ storage = NoBlob
    /\ mounted = FALSE
    /\ crashed = FALSE
    /\ nextId = 1
    /\ lastOp = NoOp
    /\ snapshot = NoSnapshot
    /\ IdleAux

(***************************************************************************)
(* The scoring engine on its own: a task, the clock, and the evaluations   *)
(* a render makes of it.                                                   *)
(***************************************************************************)
IdleView ==
    /\ tasks = <<>>
    /\ activeFilter = "All Tasks"
    /\ search = <<>>
    /\ statusFilter = "All"
    /\ areaFilter = "All"
    /\ hideDone = FALSE

IdleSort == sortBy = "null" /\ sortDir = "desc" /\ lastKey = "" /\ streak = 0
IdleProbe == probe = 0 /\ probeLevel = ""
IdleScore == task = NoEval.task /\ lastEval = NoEval /\ prevEval = NoEval

InitScore ==
    /\ now = 0
    /\ dst \in DstShifts
    /\ task \in ScoreInputs
    /\ lastEval = NoEval
    /\ prevEval = NoEval
    /\ IdleProbe /\ IdleView /\ IdleSort /\ IdleApp

\* Time passes: the next `new Date()` reads a later instant.
Tick ==
    /\ now + TickHours <= MaxNow
    /\ now' = now + TickHours
    /\ UNCHANGED <<appVars, dst, scoreVars, probeVars, viewVars, sortVars>>

\* A row is rendered: const score = calculateScore(task);
\*                    const level = calculateLevel(score);
Evaluate ==
    /\ LET score == calculateScore(task, now, dst)
       IN  lastEval' = [done |-> TRUE, at |-> now, score |-> score,
                        level |-> calculateLevel(score), task |-> task]
    /\ prevEval' = lastEval
    /\ UNCHANGED <<appVars, clockVars, task, probeVars, viewVars, sortVars>>

\* The fields outside (impact, urgency, deadline, status) are replaced.
ChangeOtherFields ==
    /\ \E o \in OtherFields :
         /\ WithOther(task, o) # task
         /\ task' = WithOther(task, o)
    /\ UNCHANGED <<appVars, clockVars, lastEval, prevEval, probeVars, viewVars, sortVars>>

NextScore == Tick \/ Evaluate \/ ChangeOtherFields

SpecScore == InitScore /\ [][NextScore]_vars

(***************************************************************************)
(* calculateLevel on its own, on every integer of -ProbeMax .. ProbeMax.   *)
(***************************************************************************)
InitLevel ==
    /\ now = 0 /\ dst = 0
    /\ IdleScore /\ IdleProbe /\ IdleView /\ IdleSort /\ IdleApp

Classify ==
    /\ \E n \in (-ProbeMax)..ProbeMax :
         /\ probe' = n
         /\ probeLevel' = calculateLevel(n)
    /\ UNCHANGED <<appVars, clockVars, scoreVars, viewVars, sortVars>>

NextLevel == Classify

SpecLevel == InitLevel /\ [][NextLevel]_vars

(***************************************************************************)
(* The view pipeline: filteredSortedTasks.                                 *)
(***************************************************************************)
\* the column headers that call toggleSort
SortKeys == {"title", "area", "type", "impact", "urgency", "effort", "deadline",
             "daysLeft", "status", "score"}
QuickFilters == {"All Tasks", "Quick Wins", "Critical", "Due Soon", "Waiting", "Done"}

\* a variant whose "Due Soon" has no lower bound, so that it keeps overdue tasks
QuickFilter_keepsOverdue(list, af, at, shift) ==
    LET quickWin(t) == t.effort = "5m" \/ t.effort = "15m"
        critical(t) == calculateLevel(calculateScore(t, at, shift)) = "Critical"
        dueSoon(t) ==
            LET d == daysUntilDeadline(t.deadline, at, shift)
            IN  ~d.isNull /\ d.v <= 3
        waiting(t) == t.status = "Waiting"
        done(t) == t.status = "Done"
    IN  CASE af = "Quick Wins" -> SelectSeq(list, quickWin)
          [] af = "Critical" -> SelectSeq(list, critical)
          [] af = "Due Soon" -> SelectSeq(list, dueSoon)
          [] af = "Waiting" -> SelectSeq(list, waiting)
          [] af = "Done" -> SelectSeq(list, done)
          [] OTHER -> list

\* switch (activeFilter)
QuickFilter(list, af, at, shift) ==
    LET quickWin(t) == t.effort = "5m" \/ t.effort = "15m"
        critical(t) == calculateLevel(calculateScore(t, at, shift)) = "Critical"
        dueSoon(t) ==
            LET d == daysUntilDeadline(t.deadline, at, shift)
            IN  ~d.isNull /\ d.v <= 3 /\ d.v >= 0
        waiting(t) == t.status = "Waiting"
        done(t) == t.status = "Done"
    IN  CASE af = "Quick Wins" -> SelectSeq(list, quickWin)
          [] af = "Critical" -> SelectSeq(list, critical)
          [] af = "Due Soon" -> SelectSeq(list, dueSoon)
          [] af = "Waiting" -> SelectSeq(list, waiting)
          [] af = "Done" -> SelectSeq(list, done)
          [] OTHER -> list

\* a variant that matches the title against the trimmed search text
Filtered_trimsSearch(ts, af, hd, sf, arf, q, at, shift) ==
    LET notDone(t) == t.status # "Done"
        hasStatus(t) == t.status = sf
        hasArea(t) == t.area = arf
        matches(t) == includes(toLowerCase(t.title), toLowerCase(trim(q)))
        l1 == QuickFilter(ts, af, at, shift)
        l2 == IF hd THEN SelectSeq(l1, notDone) ELSE l1
        l3 == IF sf # "All" THEN SelectSeq(l2, hasStatus) ELSE l2
        l4 == IF arf # "All" THEN SelectSeq(l3, hasArea) ELSE l3
    IN  IF trim(q) # <<>> THEN SelectSeq(l4, matches) ELSE l4

\* the list the comparator sorts: quick filter, hide-done, status, area, search
Filtered(ts, af, hd, sf, arf, q, at, shift) ==
    LET notDone(t) == t.status # "Done"
        hasStatus(t) == t.status = sf
        hasArea(t) == t.area = arf
        matches(t) == includes(toLowerCase(t.title), toLowerCase(q))
        l1 == QuickFilter(ts, af, at, shift)
        l2 == IF hd THEN SelectSeq(l1, notDone) ELSE l1
        l3 == IF sf # "All" THEN SelectSeq(l2, hasStatus) ELSE l2
        l4 == IF arf # "All" THEN SelectSeq(l3, hasArea) ELSE l3
    IN  IF trim(q) # <<>> THEN SelectSeq(l4, matches) ELSE l4

\* list.map((t, i) => ({ t, i }))
WithIndex(list) == [i \in 1..Len(list) |-> [t |-> list[i], i |-> i - 1]]

\* a variant that sorts a missing deadline as 0 days left
SortValue_missingIsZero(t, by, at, shift) ==
    CASE by = "title" -> [isString |-> TRUE, str |-> CharString(toLowerCase(t.title)), num |-> NaN]
      [] by = "area" -> [isString |-> TRUE, str |-> EnumString(t.area), num |-> NaN]
      [] by = "type" -> [isString |-> TRUE, str |-> EnumString(t.type), num |-> NaN]
      [] by = "effort" -> [isString |-> TRUE, str |-> EnumString(t.effort), num |-> NaN]
      [] by = "status" -> [isString |-> TRUE, str |-> EnumString(t.status), num |-> NaN]
      [] by = "impact" -> [isString |-> FALSE, str |-> CharString(<<>>), num |-> Num(t.impact)]
      [] by = "urgency" -> [isString |-> FALSE, str |-> CharString(<<>>), num |-> Num(t.urgency)]
      [] by \in {"deadline", "daysLeft"} ->
            [isString |-> FALSE, str |-> CharString(<<>>),
             num |-> OrElse(daysUntilDeadline(t.deadline, at, shift), Num(0))]
      [] OTHER -> [isString |-> FALSE, str |-> CharString(<<>>),
                   num |-> Num(calculateScore(t, at, shift))]

\* switch (sortBy): the value a task is sorted by
SortValue(t, by, at, shift) ==
    CASE by = "title" -> [isString |-> TRUE, str |-> CharString(toLowerCase(t.title)), num |-> NaN]
      [] by = "area" -> [isString |-> TRUE, str |-> EnumString(t.area), num |-> NaN]
      [] by = "type" -> [isString |-> TRUE, str |-> EnumString(t.type), num |-> NaN]
      [] by = "effort" -> [isString |-> TRUE, str |-> EnumString(t.effort), num |-> NaN]
      [] by = "status" -> [isString |-> TRUE, str |-> EnumString(t.status), num |-> NaN]
      [] by = "impact" -> [isString |-> FALSE, str |-> CharString(<<>>), num |-> Num(t.impact)]
      [] by = "urgency" -> [isString |-> FALSE, str |-> CharString(<<>>), num |-> Num(t.urgency)]
      [] by \in {"deadline", "daysLeft"} ->
            [isString |-> FALSE, str |-> CharString(<<>>),
             num |-> OrElse(daysUntilDeadline(t.deadline, at, shift), POSITIVE_INFINITY)]
      [] OTHER -> [isString |-> FALSE, str |-> CharString(<<>>),
                   num |-> Num(calculateScore(t, at, shift))]

\* a variant whose default branch breaks ties by identifier
comparator_tieById(a, b, by, dir, at, shift) ==
    IF by = "null" THEN
        LET sa == calculateScore(a.t, at, shift)
            sb == calculateScore(b.t, at, shift)
        IN  IF sb # sa THEN Num(sb - sa) ELSE Num(a.t.createdAt - b.t.createdAt)
    ELSE
        LET av == SortValue(a.t, by, at, shift)
            bv == SortValue(b.t, by, at, shift)
        IN  IF av.isString /\ bv.isString THEN
                LET cmp == localeCompare(av.str, bv.str)
                IN  IF cmp = 0 THEN Num(a.i - b.i)
                    ELSE IF dir = "asc" THEN Num(cmp) ELSE Num(-cmp)
            ELSE
                LET na == av.num
                    nb == bv.num
                IN  IF StrictEq(na, nb) THEN Num(a.i - b.i)
                    ELSE IF dir = "asc" THEN Minus(na, nb)
                    ELSE Minus(nb, na)

\* a variant whose ties follow the sort direction
comparator_tiesFollowDir(a, b, by, dir, at, shift) ==
    IF by = "null" THEN
        LET sa == calculateScore(a.t, at, shift)
            sb == calculateScore(b.t, at, shift)
        IN  IF sb # sa THEN Num(sb - sa) ELSE Num(a.i - b.i)
    ELSE
        LET av == SortValue(a.t, by, at, shift)
            bv == SortValue(b.t, by, at, shift)
            tie == IF dir = "asc" THEN Num(a.i - b.i) ELSE Num(b.i - a.i)
        IN  IF av.isString /\ bv.isString THEN
                LET cmp == localeCompare(av.str, bv.str)
                IN  IF cmp = 0 THEN tie
                    ELSE IF dir = "asc" THEN Num(cmp) ELSE Num(-cmp)
            ELSE
                LET na == av.num
                    nb == bv.num
                IN  IF StrictEq(na, nb) THEN tie
                    ELSE IF dir = "asc" THEN Minus(na, nb)
                    ELSE Minus(nb, na)

comparator(a, b, by, dir, at, shift) ==
    IF by = "null" THEN
        LET sa == calculateScore(a.t, at, shift)
            sb == calculateScore(b.t, at, shift)
        IN  IF sb # sa THEN Num(sb - sa) ELSE Num(a.i - b.i)
    ELSE
        LET av == SortValue(a.t, by, at, shift)
            bv == SortValue(b.t, by, at, shift)
        IN  IF av.isString /\ bv.isString THEN
                LET cmp == localeCompare(av.str, bv.str)
                IN  IF cmp = 0 THEN Num(a.i - b.i)
                    ELSE IF dir = "asc" THEN Num(cmp) ELSE Num(-cmp)
            ELSE
                LET na == av.num
                    nb == bv.num
                IN  IF StrictEq(na, nb) THEN Num(a.i - b.i)
                    ELSE IF dir = "asc" THEN Minus(na, nb)
                    ELSE Minus(nb, na)

\* Array.prototype.sort(comparator): x goes behind the last element that the
\* comparator does not put after it
RECURSIVE SortWith(_, _, _, _, _)
SortWith(xs, by, dir, at, shift) ==
    IF Len(xs) <= 1 THEN xs
    ELSE LET x == xs[Len(xs)]
             done == SortWith(SubSeq(xs, 1, Len(xs) - 1), by, dir, at, shift)
             front == {j \in 1..Len(done) :
                          SignOf(comparator(done[j], x, by, dir, at, shift)) <= 0}
             k == IF front = {} THEN 0 ELSE CHOOSE j \in front : \A m \in front : m <= j
         IN  SubSeq(done, 1, k) \o <<x>> \o SubSeq(done, k + 1, Len(done))

filteredSortedTasks(ts, af, hd, sf, arf, q, by, dir, at, shift) ==
    LET list == Filtered(ts, af, hd, sf, arf, q, at, shift)
        sorted == SortWith(WithIndex(list), by, dir, at, shift)
    IN  [i \in 1..Len(sorted) |-> sorted[i].t]

\* the rows the list view shows in the current state
View ==
    filteredSortedTasks(tasks, activeFilter, hideDone, statusFilter, areaFilter,
                        search, sortBy, sortDir, now, dst)

(***************************************************************************)
(* The sort and filter controls.                                           *)
(***************************************************************************)
\* a variant that keeps the direction when a new key is selected
toggleSort_keepsDir(key) ==
    /\ IF sortBy = key
       THEN /\ sortDir' = (IF sortDir = "desc" THEN "asc" ELSE "desc")
            /\ sortBy' = sortBy
       ELSE /\ sortBy' = key
            /\ sortDir' = sortDir
    /\ lastKey' = key
    /\ streak' = (IF lastKey = key THEN streak + 1 ELSE 1)
    /\ UNCHANGED <<appVars, clockVars, scoreVars, probeVars, viewVars>>

toggleSort(key) ==
    /\ IF sortBy = key
       THEN /\ sortDir' = (IF sortDir = "desc" THEN "asc" ELSE "desc")
            /\ sortBy' = sortBy
       ELSE /\ sortBy' = key
            /\ sortDir' = "desc"
    /\ lastKey' = key
    /\ streak' = (IF lastKey = key THEN streak + 1 ELSE 1)
    /\ UNCHANGED <<appVars, clockVars, scoreVars, probeVars, viewVars>>

\* a click on a column header
ClickHeader ==
    \E key \in SortKeys :
        /\ (lastKey = key => streak < MaxStreak)
        /\ toggleSort(key)

\* a variant that leaves the direction as it is
clearFilters_keepsDir ==
    /\ search' = <<>>
    /\ statusFilter' = "All"
    /\ areaFilter' = "All"
    /\ activeFilter' = "All Tasks"
    /\ hideDone' = FALSE
    /\ sortBy' = "null"
    /\ sortDir' = sortDir
    /\ lastKey' = ""
    /\ streak' = 0
    /\ lastOp' = Op("clearFilters", "", "")
    /\ UNCHANGED <<modalVars, storeVars, snapshot, auxVars, clockVars, scoreVars,
                   probeVars, tasks>>

\* function clearFilters()
clearFilters ==
    /\ search' = <<>>
    /\ statusFilter' = "All"
    /\ areaFilter' = "All"
    /\ activeFilter' = "All Tasks"
    /\ hideDone' = FALSE
    /\ sortBy' = "null"
    /\ sortDir' = "desc"
    /\ lastKey' = ""
    /\ streak' = 0
    /\ lastOp' = Op("clearFilters", "", "")
    /\ UNCHANGED <<modalVars, storeVars, snapshot, auxVars, clockVars, scoreVars,
                   probeVars, tasks>>

\* onClick={() => setActiveFilter(label)}
setActiveFilter ==
    /\ \E label \in QuickFilters : activeFilter' = label
    /\ UNCHANGED <<appVars, clockVars, scoreVars, probeVars, sortVars, tasks, search,
                   statusFilter, areaFilter, hideDone>>

\* onChange={(e) => setHideDone(e.target.checked)}
setHideDone ==
    /\ hideDone' = ~hideDone
    /\ UNCHANGED <<appVars, clockVars, scoreVars, probeVars, sortVars, tasks, search,
                   statusFilter, areaFilter, activeFilter>>

(***************************************************************************)
(* The view pipeline over stored task lists: five tasks in every order,    *)
(* with equal scores, equal sort values and deadlines of every kind.       *)
(***************************************************************************)
Catalogue ==
    << Task("id-1", 1, <<"a", "b">>, "", "Infra", "Ticket", "Self", 3, 3, "15m", Undefined, "Inbox"),
       Task("id-2", 2, <<"A", "b">>, "x", "DNS", "Meeting", "Jira", 2, 5, "1h+", Unparseable, "Doing"),
       Task("id-3", 3, <<"b">>, "", "Infra", "Ticket", "Slack", 3, 1, "5m", DateOf(1), "Waiting"),
       Task("id-4", 4, <<"a">>, "", "DevOps", "Microtask", "Boss", 5, 5, "15m", DateOf(2), "Done"),
       Task("id-5", 5, <<" ", "a">>, "", "Backend", "Follow-up", "Meeting", 1, 1, "Research", DateOf(1), "Doing") >>

\* the task lists of at most n different tasks of the catalogue
RECURSIVE ListsUpTo(_)
ListsUpTo(n) ==
    IF n = 0 THEN {<<>>}
    ELSE LET shorter == ListsUpTo(n - 1)
         IN  shorter \cup
             { Append(l, Catalogue[c]) :
                 l \in {m \in shorter : Len(m) = n - 1},
                 c \in 1..Len(Catalogue) }

Distinct(l) == \A i, j \in 1..Len(l) : i # j => l[i] # l[j]
TaskLists == {l \in ListsUpTo(MaxTasks) : Distinct(l)}

InitView ==
    /\ now = 0 /\ dst = 0
    /\ tasks \in TaskLists
    /\ activeFilter = "All Tasks"
    /\ search = <<>>
    /\ statusFilter = "All"
    /\ areaFilter = "All"
    /\ hideDone = FALSE
    /\ IdleScore /\ IdleProbe /\ IdleSort /\ IdleApp

NextView == ClickHeader \/ clearFilters \/ setHideDone \/ Tick

SpecView == InitView /\ [][NextView]_vars

(***************************************************************************)
(* The filter controls over stored task lists, with the default sort: six  *)
(* tasks whose deadlines lie before, on and after the days "Due Soon"      *)
(* keeps, and search texts that are blank, of another case than the        *)
(* titles, and with a leading space.                                       *)
(***************************************************************************)
FilterCatalogue ==
    << Task("id-1", 1, <<"a", "b">>, "", "Infra", "Ticket", "Self", 3, 3, "15m", Undefined, "Inbox"),
       Task("id-2", 2, <<" ", "a">>, "x", "DNS", "Meeting", "Jira", 5, 5, "1h+", DateOf(-1), "Doing"),
       Task("id-3", 3, <<"B", "a">>, "", "Infra", "Ticket", "Slack", 1, 1, "5m", DateOf(3), "Waiting"),
       Task("id-4", 4, <<"a">>, "", "DevOps", "Microtask", "Boss", 5, 5, "30m", DateOf(0), "Done"),
       Task("id-5", 5, <<"b">>, "", "DNS", "Follow-up", "Meeting", 3, 3, "Research", DateOf(6), "Doing"),
       Task("id-6", 6, <<"A", " ">>, "", "Infra", "Ticket", "Self", 2, 4, "5m", Unparseable, "Done") >>

\* the lists of at most n different tasks of a catalogue
RECURSIVE ListsFrom(_, _)
ListsFrom(cat, n) ==
    IF n = 0 THEN {<<>>}
    ELSE LET shorter == ListsFrom(cat, n - 1)
         IN  shorter \cup
             { Append(l, cat[c]) :
                 l \in {m \in shorter : Len(m) = n - 1 /\ Distinct(m)},
                 c \in 1..Len(cat) }

FilterLists == {l \in ListsFrom(FilterCatalogue, MaxFiltered) : Distinct(l)}

\* what is typed into the search box
SearchTexts == {<<>>, <<" ">>, <<"A">>, <<" ", "a">>}
\* the options of the area select that are chosen
AreaChoices == {"All", "Infra", "DNS"}

\* onChange={(e) => setSearch(e.target.value)}
setSearch ==
    /\ \E text \in SearchTexts : search' = text
    /\ UNCHANGED <<appVars, clockVars, scoreVars, probeVars, sortVars, tasks,
                   statusFilter, areaFilter, activeFilter, hideDone>>

\* onChange={(e) => setStatusFilter(e.target.value)}
setStatusFilter ==
    /\ \E s \in {"All"} \cup Statuses : statusFilter' = s
    /\ UNCHANGED <<appVars, clockVars, scoreVars, probeVars, sortVars, tasks,
                   search, areaFilter, activeFilter, hideDone>>

\* onChange={(e) => setAreaFilter(e.target.value)}
setAreaFilter ==
    /\ \E a \in AreaChoices : areaFilter' = a
    /\ UNCHANGED <<appVars, clockVars, scoreVars, probeVars, sortVars, tasks,
                   search, statusFilter, activeFilter, hideDone>>

InitFilter ==
    /\ now = 0 /\ dst = 0
    /\ tasks \in FilterLists
    /\ activeFilter = "All Tasks"
    /\ search = <<>>
    /\ statusFilter = "All"
    /\ areaFilter = "All"
    /\ hideDone = FALSE
    /\ IdleScore /\ IdleProbe /\ IdleSort /\ IdleApp

NextFilter ==
    setActiveFilter \/ setSearch \/ setStatusFilter \/ setAreaFilter
        \/ setHideDone \/ clearFilters

SpecFilter == InitFilter /\ [][NextFilter]_vars

(***************************************************************************)
(* The scoring engine over near and far deadlines, next to a Done task in  *)
(* the stored list.                                                        *)
(***************************************************************************)
FarDeadlines == {DateOf(d) : d \in 49..MaxFarDay}

DeadlineInputs ==
    { Task("id-1", 1, <<"a">>, "", "Infra", "Ticket", "Self", i, u, "15m", d, s) :
        i \in Scale, u \in Scale, s \in Statuses,
        d \in {Undefined} \cup {DateOf(n) : n \in (-DaysBack)..DaysAhead} \cup FarDeadlines }

InitDeadline ==
    /\ now = 0 /\ dst = 0
    /\ task \in DeadlineInputs
    /\ lastEval = NoEval
    /\ prevEval = NoEval
    /\ tasks \in {<<task, Catalogue[4]>>, <<Catalogue[4], task>>}
    /\ activeFilter = "All Tasks"
    /\ search = <<>>
    /\ statusFilter = "All"
    /\ areaFilter = "All"
    /\ hideDone = FALSE
    /\ IdleProbe /\ IdleSort /\ IdleApp

NextDeadline == Evaluate

SpecDeadline == InitDeadline /\ [][NextDeadline]_vars

(***************************************************************************)
(* The component as a whole: the mount effect that loads the store, the    *)
(* modals, the form, the three mutations and the keyboard shortcuts.  An   *)
(* effect that React runs after a handler's render is part of the          *)
(* handler's action.                                                       *)
(***************************************************************************)
restVars == <<clockVars, scoreVars, probeVars, filterVars, sortVars, auxVars>>

\* the handler that ran, for the record
Ran(op, arg, tag) == lastOp' = Op(op, arg, tag) /\ snapshot' = NoSnapshot

\* what the store holds when the page is opened
StoredTasks ==
    << Task("id-8", 0, <<"b">>, "x", "DNS", "Meeting", "Jira", 5, 1, "1h+", DateOf(1), "Waiting"),
       Task("id-9", 0, <<"a">>, "", "Infra", "Ticket", "Self", 3, 3, "15m", Undefined, "Inbox"),
       Task("id-9", 0, <<"a", "b">>, "", "Infra", "Ticket", "Boss", 2, 2, "5m", Undefined, "Doing") >>

InitialBlobs ==
    { NoBlob, Blob("empty", <<>>), Blob("invalid", <<>>), Blob("object", <<>>),
      JSONstringify(<<StoredTasks[1]>>),
      JSONstringify(<<StoredTasks[2], StoredTasks[3]>>) }

\* what the user makes of the form through the onChange handlers of its
\* fields: a title of blanks only, a title with a leading and a trailing
\* blank over the default values, and a form with no default value left
FormChoices ==
    { [defaultForm EXCEPT !.title = <<" ">>],
      [defaultForm EXCEPT !.title = <<" ", "a", " ">>],
      [title |-> <<"B">>, description |-> "x", area |-> "DNS", type |-> "Meeting",
       origin |-> "Jira", impact |-> 5, urgency |-> 1, effort |-> "1h+",
       deadline |-> DateOf(1), status |-> "Done"] }

\* the statuses an inline status control sets
StatusChoices == {"Done"}

\* the keys and the elements a keydown event comes from
Keys == {"n", "/", "Escape"}
Tags == {"body", "input", "textarea"}

\* a modal covers the page
Overlay == isModalOpen \/ ~viewingTask.isNull \/ showDeleteConfirm

Ready == mounted /\ ~crashed

\* the effect on [editingTask]: it runs when the value has changed
SyncForm(previous, current, direct) ==
    IF current = previous THEN direct
    ELSE IF ~current.isNull
         THEN [title |-> current.t.title,
               description |-> current.t.description,
               area |-> current.t.area, type |-> current.t.type,
               origin |-> current.t.origin, impact |-> current.t.impact,
               urgency |-> current.t.urgency, effort |-> current.t.effort,
               deadline |-> (IF current.t.deadline = Undefined THEN EmptyText
                             ELSE current.t.deadline),
               status |-> current.t.status]
         ELSE defaultForm

Init ==
    /\ now = 0 /\ dst = 0
    /\ IdleScore /\ IdleProbe /\ IdleView /\ IdleSort
    /\ FreshModals
    /\ storage \in InitialBlobs
    /\ mounted = FALSE
    /\ crashed = FALSE
    /\ nextId = 1
    /\ lastOp = NoOp
    /\ snapshot = NoSnapshot
    /\ IdleAux

\* a variant without the try / catch around JSON.parse
LoadEffect_noCatch ==
    /\ ~mounted
    /\ LET parsed == JSONparse(storage)
       IN  /\ IF storage.kind \in {"null", "empty"} THEN tasks' = tasks
              ELSE IF ~parsed.threw /\ parsed.isArray THEN tasks' = parsed.value
              ELSE tasks' = tasks
           /\ crashed' = (storage.kind \notin {"null", "empty"} /\ parsed.threw)
    /\ mounted' = TRUE
    /\ lastOp' = Op("load", "", "")
    /\ UNCHANGED <<restVars, modalVars, storage, nextId, snapshot>>

\* useEffect(() => { const stored = localStorage.getItem(STORAGE_KEY); ... }, [])
LoadEffect ==
    /\ ~mounted
    /\ LET parsed == JSONparse(storage)
       IN  IF storage.kind \in {"null", "empty"} THEN tasks' = tasks
           ELSE IF ~parsed.threw /\ parsed.isArray THEN tasks' = parsed.value
           ELSE tasks' = tasks
    /\ mounted' = TRUE
    /\ lastOp' = Op("load", "", "")
    /\ UNCHANGED <<restVars, modalVars, storage, crashed, nextId, snapshot>>

\* the page is loaded again: every hook starts from its initial value
Reload ==
    /\ mounted
    /\ tasks' = <<>>
    /\ activeFilter' = "All Tasks" /\ search' = <<>> /\ statusFilter' = "All"
    /\ areaFilter' = "All" /\ hideDone' = FALSE
    /\ sortBy' = "null" /\ sortDir' = "desc" /\ lastKey' = "" /\ streak' = 0
    /\ isModalOpen' = FALSE /\ editingTask' = NoTask /\ viewingTask' = NoTask
    /\ form' = defaultForm /\ showDeleteConfirm' = FALSE /\ deleteTargetId' = "null"
    /\ mounted' = FALSE
    /\ crashed' = FALSE
    /\ lastOp' = Op("reload", "", "")
    /\ snapshot' = [taken |-> TRUE, after |-> lastOp.op, tasks |-> tasks]
    /\ showInsights' = FALSE
    /\ UNCHANGED <<clockVars, scoreVars, probeVars, storage, nextId, tabVars>>

\* const updateTime = () => setCurrentDate(new Date().toLocaleString())
updateTime ==
    /\ Ready
    /\ now + TickHours <= MaxStoreNow
    /\ now' = now + TickHours
    /\ Ran("updateTime", "", "")
    /\ UNCHANGED <<dst, scoreVars, probeVars, viewVars, sortVars, modalVars, storeVars, auxVars>>

\* function openModal(), from the "+ Add Task" button
openModal ==
    /\ Ready /\ ~Overlay
    /\ editingTask' = NoTask
    /\ form' = defaultForm
    /\ viewingTask' = NoTask
    /\ isModalOpen' = TRUE
    /\ Ran("openModal", "", "")
    /\ UNCHANGED <<restVars, tasks, storeVars, showDeleteConfirm, deleteTargetId>>

\* function closeModal(), from the form modal's Close button
closeModal ==
    /\ Ready /\ isModalOpen /\ ~showDeleteConfirm
    /\ isModalOpen' = FALSE
    /\ editingTask' = NoTask
    /\ form' = defaultForm
    /\ Ran("closeModal", "", "")
    /\ UNCHANGED <<restVars, tasks, storeVars, viewingTask, showDeleteConfirm, deleteTargetId>>

\* the form's Cancel button: setIsModalOpen(false); setEditingTask(null)
cancelForm ==
    /\ Ready /\ isModalOpen /\ ~showDeleteConfirm
    /\ isModalOpen' = FALSE
    /\ editingTask' = NoTask
    /\ form' = SyncForm(editingTask, NoTask, form)
    /\ Ran("cancelForm", "", "")
    /\ UNCHANGED <<restVars, tasks, storeVars, viewingTask, showDeleteConfirm, deleteTargetId>>

\* the onChange handlers of the form's fields
changeForm ==
    /\ Ready /\ isModalOpen /\ ~showDeleteConfirm
    /\ \E f \in FormChoices : form' = f
    /\ Ran("changeForm", "", "")
    /\ UNCHANGED <<restVars, tasks, storeVars, isModalOpen, editingTask, viewingTask,
                   showDeleteConfirm, deleteTargetId>>

\* a click on a row: setViewingTask(task)
viewTask ==
    /\ Ready /\ ~Overlay
    /\ \E t \in {tasks[i] : i \in 1..Len(tasks)} :
         /\ viewingTask' = TheTask(t)
         /\ Ran("viewTask", t.id, "")
    /\ UNCHANGED <<restVars, tasks, storeVars, isModalOpen, editingTask, form,
                   showDeleteConfirm, deleteTargetId>>

\* the view modal's Close button: setViewingTask(null)
closeView ==
    /\ Ready /\ ~viewingTask.isNull
    /\ viewingTask' = NoTask
    /\ Ran("closeView", "", "")
    /\ UNCHANGED <<restVars, tasks, storeVars, isModalOpen, editingTask, form,
                   showDeleteConfirm, deleteTargetId>>

\* a row's edit button: setViewingTask(null); setEditingTask(task)
editRow ==
    /\ Ready /\ ~Overlay
    /\ \E t \in {tasks[i] : i \in 1..Len(tasks)} :
         /\ editingTask' = TheTask(t)
         /\ form' = SyncForm(editingTask, TheTask(t), form)
         /\ isModalOpen' = (TheTask(t) # editingTask \/ isModalOpen)
         /\ Ran("editRow", t.id, "")
    /\ viewingTask' = NoTask
    /\ UNCHANGED <<restVars, tasks, storeVars, showDeleteConfirm, deleteTargetId>>

\* the view modal's Edit button: setViewingTask(null); setEditingTask(viewingTask)
editViewed ==
    /\ Ready /\ ~viewingTask.isNull
    /\ editingTask' = viewingTask
    /\ form' = SyncForm(editingTask, viewingTask, form)
    /\ isModalOpen' = (viewingTask # editingTask \/ isModalOpen)
    /\ viewingTask' = NoTask
    /\ Ran("editViewed", viewingTask.t.id, "")
    /\ UNCHANGED <<restVars, tasks, storeVars, showDeleteConfirm, deleteTargetId>>

\* a variant that accepts a title of blanks
HasTitle_untrimmed(f) == f.title # <<>>

\* !form.title.trim() is false
HasTitle(f) == trim(f.title) # <<>>

\* a variant that stores the title as it was typed
FormFields_untrimmed(t, f) ==
    [t EXCEPT !.title = f.title,
              !.description = f.description,
              !.area = f.area, !.type = f.type, !.origin = f.origin,
              !.impact = f.impact, !.urgency = f.urgency, !.effort = f.effort,
              !.deadline = (IF f.deadline = EmptyText THEN Undefined ELSE f.deadline),
              !.status = f.status]

\* the fields a submitted form gives a task
FormFields(t, f) ==
    [t EXCEPT !.title = trim(f.title),
              !.description = f.description,
              !.area = f.area, !.type = f.type, !.origin = f.origin,
              !.impact = f.impact, !.urgency = f.urgency, !.effort = f.effort,
              !.deadline = (IF f.deadline = EmptyText THEN Undefined ELSE f.deadline),
              !.status = f.status]

\* const newTask: Task = { id: crypto.randomUUID(), createdAt: new Date().toISOString(), ... }
newTask(f, uuid, at) == FormFields([NoEval.task EXCEPT !.id = uuid, !.createdAt = at], f)

\* crypto.randomUUID(): an identifier that was never handed out
randomUUID(n) == "id-" \o ToString(n)

\* a variant that puts the new task in the list twice
nextTasks_twice(t, ts) == <<t, t>> \o ts

\* a variant that puts the new task at the end
nextTasks_appended(t, ts) == ts \o <<t>>

\* const nextTasks = [newTask, ...tasks]
nextTasks(t, ts) == <<t>> \o ts

\* a variant that moves the edited task to the front of the list
updatedTasks_toFront(ts, id, f) ==
    LET hit == SelectSeq(ts, LAMBDA t : t.id = id)
        rest == SelectSeq(ts, LAMBDA t : t.id # id)
    IN  [i \in 1..Len(hit) |-> FormFields(hit[i], f)] \o rest

\* a variant that replaces every task, whatever its id
updatedTasks_everyRow(ts, id, f) ==
    [i \in 1..Len(ts) |-> FormFields(ts[i], f)]

\* tasks.map((t) => t.id === editingTask.id ? { ...t, title: ..., status: form.status } : t)
updatedTasks(ts, id, f) ==
    [i \in 1..Len(ts) |-> IF ts[i].id = id THEN FormFields(ts[i], f) ELSE ts[i]]

\* function handleSubmit(event)
handleSubmit ==
    /\ Ready /\ isModalOpen /\ ~showDeleteConfirm
    /\ IF ~HasTitle(form)
       THEN UNCHANGED <<tasks, storage, nextId, modalVars>>
       ELSE IF ~editingTask.isNull
       THEN LET updated == updatedTasks(tasks, editingTask.t.id, form)
            IN  /\ tasks' = updated
                /\ storage' = JSONstringify(updated)
                /\ isModalOpen' = FALSE
                /\ editingTask' = NoTask
                /\ viewingTask' = NoTask
                /\ form' = SyncForm(editingTask, NoTask, form)
                /\ UNCHANGED <<nextId, showDeleteConfirm, deleteTargetId>>
       ELSE LET created == nextTasks(newTask(form, randomUUID(nextId), now), tasks)
            IN  /\ nextId <= MaxCreates
                /\ nextId' = nextId + 1
                /\ tasks' = created
                /\ storage' = JSONstringify(created)
                /\ isModalOpen' = FALSE
                /\ editingTask' = NoTask
                /\ form' = defaultForm
                /\ UNCHANGED <<viewingTask, showDeleteConfirm, deleteTargetId>>
    /\ Ran("handleSubmit", "", "")
    /\ UNCHANGED <<restVars, mounted, crashed>>

\* a variant that does not save the list
updateTaskStatus_unsaved ==
    /\ Ready /\ ~Overlay
    /\ \E i \in 1..Len(tasks), status \in StatusChoices :
         LET updated == [j \in 1..Len(tasks) |->
                           IF tasks[j].id = tasks[i].id
                           THEN [tasks[j] EXCEPT !.status = status] ELSE tasks[j]]
         IN  /\ tasks' = updated
             /\ storage' = storage
             /\ Ran("updateTaskStatus", tasks[i].id, status)
    /\ UNCHANGED <<restVars, modalVars, mounted, crashed, nextId>>

\* function updateTaskStatus(id, status); the component defines it for the
\* inline status control of a row
updateTaskStatus ==
    /\ Ready /\ ~Overlay
    /\ \E i \in 1..Len(tasks), status \in StatusChoices :
         LET updated == [j \in 1..Len(tasks) |->
                           IF tasks[j].id = tasks[i].id
                           THEN [tasks[j] EXCEPT !.status = status] ELSE tasks[j]]
         IN  /\ tasks' = updated
             /\ storage' = JSONstringify(updated)
             /\ Ran("updateTaskStatus", tasks[i].id, status)
    /\ UNCHANGED <<restVars, modalVars, mounted, crashed, nextId>>

\* a variant that shows the confirmation without setting the target
confirmDelete_noTarget ==
    /\ Ready /\ ~Overlay
    /\ \E i \in 1..Len(tasks) :
         /\ deleteTargetId' = deleteTargetId
         /\ Ran("confirmDelete", tasks[i].id, "")
    /\ showDeleteConfirm' = TRUE
    /\ UNCHANGED <<restVars, tasks, storeVars, isModalOpen, editingTask, viewingTask, form>>

\* function confirmDelete(id), from a row's delete button
confirmDelete ==
    /\ Ready /\ ~Overlay
    /\ \E i \in 1..Len(tasks) :
         /\ deleteTargetId' = tasks[i].id
         /\ Ran("confirmDelete", tasks[i].id, "")
    /\ showDeleteConfirm' = TRUE
    /\ UNCHANGED <<restVars, tasks, storeVars, isModalOpen, editingTask, viewingTask, form>>

\* a variant whose Cancel empties the list and saves it
cancelDelete_clearsStore ==
    /\ Ready /\ showDeleteConfirm
    /\ showDeleteConfirm' = FALSE
    /\ deleteTargetId' = "null"
    /\ tasks' = <<>>
    /\ storage' = JSONstringify(<<>>)
    /\ Ran("cancelDelete", "", "")
    /\ UNCHANGED <<restVars, mounted, crashed, nextId, isModalOpen, editingTask,
                   viewingTask, form>>

\* the confirmation's Cancel button: setShowDeleteConfirm(false); setDeleteTargetId(null)
cancelDelete ==
    /\ Ready /\ showDeleteConfirm
    /\ showDeleteConfirm' = FALSE
    /\ deleteTargetId' = "null"
    /\ Ran("cancelDelete", "", "")
    /\ UNCHANGED <<restVars, tasks, storeVars, isModalOpen, editingTask, viewingTask, form>>

\* a variant that removes only the first task with the id
without_firstOnly(ts, id) ==
    LET hits == {i \in 1..Len(ts) : ts[i].id = id}
        first == CHOOSE i \in hits : \A j \in hits : i <= j
    IN  IF hits = {} THEN ts
        ELSE [i \in 1..(Len(ts) - 1) |-> IF i < first THEN ts[i] ELSE ts[i + 1]]

\* tasks.filter((t) => t.id !== deleteTargetId)
without(ts, id) ==
    LET other(t) == t.id # id
    IN  SelectSeq(ts, other)

\* a variant that saves the list as it was before the removal
performDelete_savesOld ==
    /\ Ready /\ showDeleteConfirm
    /\ IF deleteTargetId = "null"
       THEN UNCHANGED <<tasks, storage, showDeleteConfirm, deleteTargetId>>
       ELSE /\ tasks' = without(tasks, deleteTargetId)
            /\ storage' = JSONstringify(tasks)
            /\ showDeleteConfirm' = FALSE
            /\ deleteTargetId' = "null"
    /\ Ran("performDelete", deleteTargetId, "")
    /\ UNCHANGED <<restVars, mounted, crashed, nextId, isModalOpen, editingTask,
                   viewingTask, form>>

\* function performDelete(), from the confirmation's Delete button
performDelete ==
    /\ Ready /\ showDeleteConfirm
    /\ IF deleteTargetId = "null"
       THEN UNCHANGED <<tasks, storage, showDeleteConfirm, deleteTargetId>>
       ELSE /\ tasks' = without(tasks, deleteTargetId)
            /\ storage' = JSONstringify(without(tasks, deleteTargetId))
            /\ showDeleteConfirm' = FALSE
            /\ deleteTargetId' = "null"
    /\ Ran("performDelete", deleteTargetId, "")
    /\ UNCHANGED <<restVars, mounted, crashed, nextId, isModalOpen, editingTask,
                   viewingTask, form>>

\* a variant whose "n" leaves the form to the effect on [editingTask]
onKey_keepsForm ==
    /\ Ready
    /\ \E key \in Keys, tag \in Tags :
         /\ tag = "textarea" => isModalOpen
         /\ Ran("onKey", key, tag)
         /\ IF tag = "input" \/ tag = "textarea"
            THEN UNCHANGED <<modalVars>>
            ELSE CASE key = "n" ->
                        /\ editingTask' = NoTask
                        /\ form' = SyncForm(editingTask, NoTask, form)
                        /\ viewingTask' = NoTask
                        /\ isModalOpen' = TRUE
                        /\ UNCHANGED <<showDeleteConfirm, deleteTargetId>>
                   [] key = "Escape" ->
                        /\ isModalOpen' = FALSE
                        /\ showDeleteConfirm' = FALSE
                        /\ editingTask' = NoTask
                        /\ viewingTask' = NoTask
                        /\ form' = SyncForm(editingTask, NoTask, form)
                        /\ UNCHANGED <<deleteTargetId>>
                   [] OTHER -> UNCHANGED <<modalVars>>
    /\ UNCHANGED <<restVars, tasks, storeVars>>

\* function onKey(e): the keydown listener on window
onKey ==
    /\ Ready
    /\ \E key \in Keys, tag \in Tags :
         \* the description textarea exists while the form modal is shown
         /\ tag = "textarea" => isModalOpen
         /\ Ran("onKey", key, tag)
         /\ IF tag = "input" \/ tag = "textarea"
            THEN UNCHANGED <<modalVars>>
            ELSE CASE key = "n" ->
                        /\ editingTask' = NoTask
                        /\ form' = defaultForm
                        /\ viewingTask' = NoTask
                        /\ isModalOpen' = TRUE
                        /\ UNCHANGED <<showDeleteConfirm, deleteTargetId>>
                   [] key = "Escape" ->
                        /\ isModalOpen' = FALSE
                        /\ showDeleteConfirm' = FALSE
                        /\ editingTask' = NoTask
                        /\ viewingTask' = NoTask
                        /\ form' = SyncForm(editingTask, NoTask, form)
                        /\ UNCHANGED <<deleteTargetId>>
                   [] OTHER -> UNCHANGED <<modalVars>>
    /\ UNCHANGED <<restVars, tasks, storeVars>>

\* The store: loading, the three mutations and the reload of the page.
Next ==
    \/ LoadEffect \/ Reload \/ updateTime
    \/ openModal \/ changeForm \/ editRow
    \/ handleSubmit \/ updateTaskStatus
    \/ confirmDelete \/ performDelete

Spec == Init /\ [][Next]_vars

\* The modals and the keyboard, over one stored task.
InitModal ==
    /\ Init
    /\ storage = JSONstringify(<<StoredTasks[1]>>)

NextModal ==
    \/ LoadEffect
    \/ openModal \/ closeModal \/ cancelForm \/ changeForm
    \/ viewTask \/ closeView \/ editRow \/ editViewed
    \/ handleSubmit
    \/ confirmDelete \/ cancelDelete \/ performDelete
    \/ onKey

SpecModal == InitModal /\ [][NextModal]_vars

(***************************************************************************)
(* Two tabs on one localStorage.  The second tab runs the same component;  *)
(* of its state the model keeps the task list, and its handlers are the    *)
(* load effect, the create branch of handleSubmit and performDelete.       *)
(***************************************************************************)
tabFrame == <<clockVars, scoreVars, probeVars, viewVars, sortVars, modalVars, mounted, crashed, showInsights>>

\* what the load effect makes of the list, given the blob
loadedTasks(blob, current) ==
    LET parsed == JSONparse(blob)
    IN  IF blob.kind \in {"null", "empty"} THEN current
        ELSE IF ~parsed.threw /\ parsed.isArray THEN parsed.value
        ELSE current

\* the second tab is opened: its load effect
otherLoad ==
    /\ ~otherMounted
    /\ otherTasks' = loadedTasks(storage, otherTasks)
    /\ otherMounted' = TRUE
    /\ Ran("load", "", "other")
    /\ UNCHANGED <<tabFrame, storage, nextId>>

\* a variant that puts the new task in front of the stored list
otherCreate_merges ==
    /\ otherMounted
    /\ nextId <= MaxCreates
    /\ \E f \in FormChoices :
         /\ HasTitle(f)
         /\ LET created == nextTasks(newTask(f, randomUUID(nextId), now),
                                     loadedTasks(storage, otherTasks))
            IN  /\ otherTasks' = created
                /\ storage' = JSONstringify(created)
    /\ nextId' = nextId + 1
    /\ Ran("handleSubmit", "", "other")
    /\ UNCHANGED <<tabFrame, otherMounted>>

\* the second tab's handleSubmit, create branch
otherCreate ==
    /\ otherMounted
    /\ nextId <= MaxCreates
    /\ \E f \in FormChoices :
         /\ HasTitle(f)
         /\ LET created == nextTasks(newTask(f, randomUUID(nextId), now), otherTasks)
            IN  /\ otherTasks' = created
                /\ storage' = JSONstringify(created)
    /\ nextId' = nextId + 1
    /\ Ran("handleSubmit", "", "other")
    /\ UNCHANGED <<tabFrame, otherMounted>>

\* the second tab's performDelete, after its confirmDelete(id)
otherDelete ==
    /\ otherMounted
    /\ \E i \in 1..Len(otherTasks) :
         /\ otherTasks' = without(otherTasks, otherTasks[i].id)
         /\ storage' = JSONstringify(without(otherTasks, otherTasks[i].id))
         /\ Ran("performDelete", otherTasks[i].id, "other")
    /\ UNCHANGED <<tabFrame, otherMounted, nextId>>

\* The store of a first visit: no blob, an empty string or an empty array.
InitFresh ==
    /\ Init
    /\ storage \in {NoBlob, Blob("empty", <<>>), JSONstringify(<<>>)}

SpecFresh == InitFresh /\ [][Next]_vars

\* onClick={() => setShowInsights((s) => !s)}
toggleInsights ==
    /\ showInsights' = ~showInsights
    /\ Ran("toggleInsights", "", "")
    /\ UNCHANGED <<clockVars, scoreVars, probeVars, viewVars, sortVars, modalVars,
                   storeVars, tabVars>>

\* onClick={() => setShowInsights(false)}, the panel's Close button
closeInsights ==
    /\ showInsights
    /\ showInsights' = FALSE
    /\ Ran("closeInsights", "", "")
    /\ UNCHANGED <<clockVars, scoreVars, probeVars, viewVars, sortVars, modalVars,
                   storeVars, tabVars>>

\* the number of page controls that are away from their initial value
ControlsSet ==
    (IF activeFilter # "All Tasks" THEN 1 ELSE 0)
        + (IF search # <<>> THEN 1 ELSE 0)
        + (IF statusFilter # "All" THEN 1 ELSE 0)
        + (IF areaFilter # "All" THEN 1 ELSE 0)
        + (IF hideDone THEN 1 ELSE 0)
        + (IF sortBy # "null" THEN 1 ELSE 0)
        + (IF showInsights THEN 1 ELSE 0)

\* a click on, or a change of, one of the controls of the page, which an
\* open modal covers
useControl ==
    /\ Ready /\ ~Overlay
    /\ \/ setActiveFilter \/ setSearch \/ setStatusFilter \/ setAreaFilter
       \/ setHideDone \/ ClickHeader \/ clearFilters
       \/ toggleInsights \/ closeInsights
    /\ ControlsSet' <= MaxControls

\* The controls of the page and the modals, over one stored task.
NextReadOnly ==
    \/ LoadEffect \/ useControl
    \/ openModal \/ closeModal \/ cancelForm
    \/ viewTask \/ closeView \/ editRow \/ editViewed
    \/ confirmDelete \/ cancelDelete \/ performDelete

SpecReadOnly == InitModal /\ [][NextReadOnly]_vars

InitTabs ==
    /\ Init
    /\ storage \in {NoBlob, JSONstringify(<<StoredTasks[1]>>)}

NextTabs ==
    \/ LoadEffect \/ openModal \/ changeForm \/ handleSubmit
    \/ confirmDelete \/ performDelete
    \/ otherLoad \/ otherCreate \/ otherDelete

SpecTabs == InitTabs /\ [][NextTabs]_vars

(***************************************************************************)
(* The scoring engine's properties (SpecScore, SpecLevel).                 *)
(***************************************************************************)
HasDate(t) == t.deadline.kind = "date"
NoDeadline(t) == t.deadline.kind \in {"undefined", "empty"}
DaysOf(e) == daysUntilDeadline(e.task.deadline, e.at, dst).v
SameInputs(a, b) ==
    /\ a.impact = b.impact
    /\ a.urgency = b.urgency
    /\ a.deadline = b.deadline
    /\ a.status = b.status

\* C1: every evaluation of a Done task returns 0, whatever its impact,
\* urgency and deadline are.
C1_DoneScoresZero ==
    (lastEval.done /\ lastEval.task.status = "Done") => lastEval.score = 0

\* a Done task of impact 5 and urgency 5 whose deadline is today or overdue
\* has been evaluated
C1_Witness ==
    /\ lastEval.done
    /\ lastEval.task.status = "Done"
    /\ lastEval.task.impact = 5
    /\ lastEval.task.urgency = 5
    /\ HasDate(lastEval.task)
    /\ DaysOf(lastEval) <= 0

\* C2: for a task that is not Done the score is impact*2 + urgency, plus
\* 1000 - 20*days exactly when the deadline parses to a date, minus 10
\* exactly when the status is Waiting.
C2_ScoreFormula ==
    (lastEval.done /\ lastEval.task.status # "Done") =>
        lastEval.score =
            lastEval.task.impact * 2 + lastEval.task.urgency
            + (IF HasDate(lastEval.task) THEN 1000 - 20 * DaysOf(lastEval) ELSE 0)
            - (IF lastEval.task.status = "Waiting" THEN 10 ELSE 0)

\* a Waiting task with an overdue deadline has been evaluated
C2_Witness ==
    /\ lastEval.done
    /\ lastEval.task.status = "Waiting"
    /\ HasDate(lastEval.task)
    /\ DaysOf(lastEval) < 0
    /\ lastEval.score > 1000

\* C3: calculateLevel maps an integer to Critical exactly from 900 up, to
\* High exactly on 30..899, to Medium exactly on 10..29 and to Low exactly
\* below 10.
C3_LevelThresholds ==
    probeLevel # "" =>
        /\ probeLevel \in Levels
        /\ probeLevel = "Critical" <=> probe >= 900
        /\ probeLevel = "High" <=> (30 <= probe /\ probe < 900)
        /\ probeLevel = "Medium" <=> (10 <= probe /\ probe < 30)
        /\ probeLevel = "Low" <=> probe < 10

\* the lowest Critical score has been classified
C3_Witness == probeLevel = "Critical" /\ probe = 900

IsExample4(e) ==
    /\ e.done
    /\ e.task.impact = 5
    /\ e.task.urgency = 5
    /\ NoDeadline(e.task)
    /\ e.task.status = "Doing"

\* C4 as stated: impact 5, urgency 5, no deadline, Doing gives score 15 and
\* level High.
C4_Original ==
    IsExample4(lastEval) => (lastEval.score = 15 /\ lastEval.level = "High")

\* C4 as amended: the same task has score 15 and level Medium (15 < 30).
C4_ScoreFifteenIsMedium ==
    IsExample4(lastEval) => (lastEval.score = 15 /\ lastEval.level = "Medium")

\* the example task has been evaluated
C4_Witness == IsExample4(lastEval) /\ lastEval.task.deadline = Undefined

IsExample5(e) ==
    /\ e.done
    /\ e.task.impact = 1
    /\ e.task.urgency = 1
    /\ HasDate(e.task)
    /\ e.task.deadline.day = LocalDay(e.at, dst)
    /\ e.task.status = "Doing"

\* C5: impact 1, urgency 1, deadline today, Doing gives 0 days, score 1003
\* and level Critical.
C5_DeadlineTodayIsCritical ==
    IsExample5(lastEval) =>
        /\ DaysOf(lastEval) = 0
        /\ lastEval.score = 1003
        /\ lastEval.level = "Critical"

\* the example task has been evaluated in the middle of its deadline's day
C5_Witness == IsExample5(lastEval) /\ lastEval.at > startOfDay(lastEval.at, dst)

BothEvaluated ==
    /\ lastEval.done
    /\ prevEval.done
    /\ SameInputs(lastEval.task, prevEval.task)

\* C6 as stated: two evaluations on tasks that agree on impact, urgency,
\* deadline and status return the same score, whenever each happens.
C6_Original == BothEvaluated => lastEval.score = prevEval.score

\* C6 as amended: they return the same score when both happen on the same
\* local calendar day, or when the task is Done or has no deadline that
\* parses; the other fields never matter.
C6_SameDaySameScore ==
    (/\ BothEvaluated
     /\ \/ LocalDay(lastEval.at, dst) = LocalDay(prevEval.at, dst)
        \/ lastEval.task.status = "Done"
        \/ ~HasDate(lastEval.task))
    => lastEval.score = prevEval.score

\* a task with a deadline, not Done, has been evaluated twice on one day, at
\* different hours and with different other fields
C6_Witness ==
    /\ BothEvaluated
    /\ lastEval.task.status # "Done"
    /\ HasDate(lastEval.task)
    /\ LocalDay(lastEval.at, dst) = LocalDay(prevEval.at, dst)
    /\ lastEval.at # prevEval.at
    /\ lastEval.task.id # prevEval.task.id
    /\ lastEval.task.effort # prevEval.task.effort

(***************************************************************************)
(* The view pipeline's properties (SpecView).                              *)
(***************************************************************************)
ScoreNow(t) == calculateScore(t, now, dst)
FilteredNow ==
    Filtered(tasks, activeFilter, hideDone, statusFilter, areaFilter, search, now, dst)
\* the place of a task in the stored list
Pos(t) == CHOOSE i \in 1..Len(tasks) : tasks[i] = t
Range(l) == {l[i] : i \in 1..Len(l)}
SameTasks(v, l) == Len(v) = Len(l) /\ Range(v) = Range(l)

DefaultOrder(v) ==
    \A p, q \in 1..Len(v) :
        p < q =>
            \/ ScoreNow(v[p]) > ScoreNow(v[q])
            \/ ScoreNow(v[p]) = ScoreNow(v[q]) /\ Pos(v[p]) < Pos(v[q])

\* C7: with no sort key the pipeline returns the filtered tasks by descending
\* score, equal scores in the order of the stored list, whatever the ids and
\* whatever sortDir is.
C7_DefaultSort ==
    sortBy = "null" =>
        \A dir \in {"asc", "desc"} :
            LET v == filteredSortedTasks(tasks, activeFilter, hideDone, statusFilter,
                                         areaFilter, search, sortBy, dir, now, dst)
                l == FilteredNow
            IN  SameTasks(v, l) /\ DefaultOrder(v)

\* with no key, some hours into the day, two tasks of equal score are shown
\* in list order although their ids are in the opposite order, behind a task
\* of higher score
C7_Witness ==
    /\ sortBy = "null"
    /\ now > 0
    /\ tasks = <<Catalogue[2], Catalogue[3], Catalogue[1]>>
    /\ ScoreNow(Catalogue[2]) = ScoreNow(Catalogue[1])
    /\ View = <<Catalogue[3], Catalogue[2], Catalogue[1]>>

\* C8: toggleSort(key) on another key than sortBy sets sortBy to key and
\* sortDir to desc; on the key that is sortBy it keeps sortBy and flips
\* sortDir.  Hence the n-th selection in a row of a newly selected key leaves
\* desc for odd n and asc for even n.
C8_ToggleSort ==
    /\ [][\A k \in SortKeys :
            (lastKey' = k /\ (lastKey' # lastKey \/ streak' # streak)) =>
                IF sortBy # k
                THEN sortBy' = k /\ sortDir' = "desc"
                ELSE sortBy' = sortBy /\ sortDir' # sortDir /\ sortDir' \in {"asc", "desc"}]_vars
    /\ [](streak >= 1 =>
            /\ sortBy = lastKey
            /\ sortDir = (IF streak % 2 = 1 THEN "desc" ELSE "asc"))

\* a key has been selected three times in a row
C8_Witness == streak = 3 /\ sortBy = "impact" /\ sortDir = "desc"

\* the sign of the comparison of the sort values of two tasks
KeyCompare(a, b) ==
    LET av == SortValue(a, sortBy, now, dst)
        bv == SortValue(b, sortBy, now, dst)
    IN  IF av.isString THEN localeCompare(av.str, bv.str)
        ELSE IF StrictEq(av.num, bv.num) THEN 0
        ELSE SignOf(Minus(av.num, bv.num))

\* C9: with a sort key, tasks of equal sort value are shown in the order of
\* the stored list in both directions, and tasks of different sort values
\* ascending for asc, descending for desc.
C9_StableKeySort ==
    sortBy \in SortKeys =>
        LET v == View
            l == FilteredNow
        IN  /\ SameTasks(v, l)
            /\ \A p, q \in 1..Len(v) :
                 p < q =>
                    LET c == KeyCompare(v[p], v[q])
                    IN  /\ c = 0 => Pos(v[p]) < Pos(v[q])
                        /\ c # 0 => (IF sortDir = "asc" THEN c < 0 ELSE c > 0)

\* sorted by impact, descending: the two tasks of impact 3 are shown in list
\* order, which is not the order of their ids, behind the task of impact 5
C9_Witness ==
    /\ sortBy = "impact"
    /\ sortDir = "desc"
    /\ tasks = <<Catalogue[3], Catalogue[1], Catalogue[4]>>
    /\ View = <<Catalogue[4], Catalogue[3], Catalogue[1]>>

NoDays(t) == daysUntilDeadline(t.deadline, now, dst).isNull

\* C10: sorted by deadline or daysLeft, the tasks without a deadline that
\* parses come after all others for asc and before all others for desc, and
\* keep the order of the stored list among themselves.
C10_MissingDeadlineIsInfinity ==
    sortBy \in {"deadline", "daysLeft"} =>
        LET v == View
        IN  \A p, q \in 1..Len(v) :
                /\ (NoDays(v[p]) /\ ~NoDays(v[q])) =>
                      (IF sortDir = "asc" THEN p > q ELSE p < q)
                /\ (NoDays(v[p]) /\ NoDays(v[q]) /\ p < q) =>
                      Pos(v[p]) < Pos(v[q])

\* sorted by deadline, descending: the task with an unparseable deadline and
\* the one without deadline come first, in list order
C10_Witness ==
    /\ sortBy = "deadline"
    /\ sortDir = "desc"
    /\ tasks = <<Catalogue[3], Catalogue[2], Catalogue[1]>>
    /\ View = <<Catalogue[2], Catalogue[1], Catalogue[3]>>

\* the same, ascending
C10_WitnessAsc ==
    /\ sortBy = "daysLeft"
    /\ sortDir = "asc"
    /\ tasks = <<Catalogue[2], Catalogue[3], Catalogue[1]>>
    /\ View = <<Catalogue[3], Catalogue[2], Catalogue[1]>>

(***************************************************************************)
(* The quick filters and the filter conjunction (SpecFilter).              *)
(***************************************************************************)
\* what a quick filter keeps, by its label
Keeps(label, t) ==
    CASE label = "All Tasks" -> TRUE
      [] label = "Quick Wins" -> t.effort \in {"5m", "15m"}
      [] label = "Critical" -> calculateLevel(ScoreNow(t)) = "Critical"
      [] label = "Due Soon" ->
           /\ ~daysUntilDeadline(t.deadline, now, dst).isNull
           /\ daysUntilDeadline(t.deadline, now, dst).v \in 0..3
      [] label = "Waiting" -> t.status = "Waiting"
      [] label = "Done" -> t.status = "Done"
      [] OTHER -> FALSE

\* l keeps the order that its tasks have in the stored list
InStoredOrder(l) == \A i, j \in 1..Len(l) : i < j => Pos(l[i]) < Pos(l[j])

OtherFiltersOff ==
    /\ hideDone = FALSE
    /\ statusFilter = "All"
    /\ areaFilter = "All"
    /\ \A i \in 1..Len(search) : search[i] = " "

\* C11: one of the six quick filters is active at any time, and it is the
\* first stage of the pipeline: what it passes on is exactly what its label
\* keeps (All Tasks everything, Quick Wins effort 5m or 15m, Critical the
\* level Critical, Due Soon a deadline 0 to 3 days away, Waiting and Done the
\* status), in the stored order; the view shows nothing else, and all of it
\* when no other filter is set.
C11_QuickFilter ==
    LET kept == QuickFilter(tasks, activeFilter, now, dst)
        shown == View
    IN  /\ activeFilter \in QuickFilters
        /\ Range(kept) = {t \in Range(tasks) : Keeps(activeFilter, t)}
        /\ Len(kept) = Cardinality(Range(kept))
        /\ InStoredOrder(kept)
        /\ Range(shown) \subseteq Range(kept)
        /\ OtherFiltersOff => SameTasks(shown, kept)

\* "Due Soon" over an overdue task and a task due in three days
C11_Witness ==
    /\ activeFilter = "Due Soon"
    /\ OtherFiltersOff
    /\ tasks = <<FilterCatalogue[2], FilterCatalogue[3]>>
    /\ View = <<FilterCatalogue[3]>>

\* the title contains the text, letter case aside
ContainsIgnoringCase(title, text) ==
    \E k \in 0..(Len(title) - Len(text)) :
        \A i \in 1..Len(text) : Lower(title[k + i]) = Lower(text[i])

Blank(text) == \A i \in 1..Len(text) : text[i] = " "

\* every filter that is set lets the task through
PassesAll(t) ==
    /\ Keeps(activeFilter, t)
    /\ hideDone => t.status # "Done"
    /\ statusFilter # "All" => t.status = statusFilter
    /\ areaFilter # "All" => t.area = areaFilter
    /\ ~Blank(search) => ContainsIgnoringCase(t.title, search)

\* C12: the view shows exactly the stored tasks that pass the quick filter,
\* the hide-done switch, the status filter, the area filter and the search
\* text (compared without regard to case, when it is not blank), each of
\* them once.
C12_FilterConjunction ==
    LET shown == View
    IN  /\ Range(shown) = {t \in Range(tasks) : PassesAll(t)}
        /\ Len(shown) = Cardinality(Range(shown))

\* a search text with a leading space is matched as typed
C12_Witness ==
    /\ search = <<" ", "a">>
    /\ statusFilter = "Doing"
    /\ hideDone
    /\ tasks = <<FilterCatalogue[5], FilterCatalogue[2]>>
    /\ View = <<FilterCatalogue[2]>>

(***************************************************************************)
(* The store (Spec): create, edit, delete, save and load.                  *)
(***************************************************************************)
Ids(ts) == {ts[i].id : i \in 1..Len(ts)}

\* the step is a submit of the create form with a title that is not blank
CreateStep ==
    lastOp'.op = "handleSubmit" /\ ~Blank(form.title) /\ editingTask.isNull

\* the step is a submit of the edit form with a title that is not blank
EditStep ==
    lastOp'.op = "handleSubmit" /\ ~Blank(form.title) /\ ~editingTask.isNull

\* the step is a confirmed delete
DeleteStep == lastOp'.op = "performDelete" /\ deleteTargetId # "null"

\* t carries what the form f holds: the title without the blanks around
\* it, an empty deadline as no deadline
CarriesForm(t, f) ==
    /\ t.title = trim(f.title)
    /\ t.description = f.description
    /\ t.area = f.area /\ t.type = f.type /\ t.origin = f.origin
    /\ t.impact = f.impact /\ t.urgency = f.urgency /\ t.effort = f.effort
    /\ t.deadline = (IF f.deadline = EmptyText THEN Undefined ELSE f.deadline)
    /\ t.status = f.status

\* C13: a submit of the create form with a non-blank title puts one new
\* task in front of the previous list, which follows it unchanged; the new
\* task has an id no task of the list had, the current time as createdAt and
\* the values of the form.
C13_CreatePrepends ==
    [][ CreateStep =>
          /\ Len(tasks') = Len(tasks) + 1
          /\ Tail(tasks') = tasks
          /\ Head(tasks').id \notin Ids(tasks)
          /\ Head(tasks').createdAt = now
          /\ CarriesForm(Head(tasks'), form) ]_vars

\* a second task has been created, later than the first and in front of it
C13_Witness ==
    /\ lastOp.op = "handleSubmit"
    /\ Len(tasks) >= 2
    /\ tasks[1].id = randomUUID(2)
    /\ tasks[2].id = randomUUID(1)
    /\ tasks[1].createdAt = now /\ now > tasks[2].createdAt
    /\ tasks[1].title = <<"a">>

\* C14: no step of a session changes the id or the createdAt of a task that
\* stays in the list (create, edit, status change and delete included), and
\* a submit of the edit form gives the form's title, description, area, type,
\* origin, impact, urgency, effort, deadline and status to the tasks with
\* the edited id and leaves every other task as it was.
C14_EditKeepsIdentity ==
    [][ /\ lastOp'.op \notin {"load", "reload"} =>
             \A j \in 1..Len(tasks') :
                 tasks'[j].id \in Ids(tasks) =>
                     \E i \in 1..Len(tasks) :
                         /\ tasks[i].id = tasks'[j].id
                         /\ tasks[i].createdAt = tasks'[j].createdAt
        /\ (EditStep \/ lastOp'.op = "updateTaskStatus") =>
             /\ Len(tasks') = Len(tasks)
             /\ \A i \in 1..Len(tasks) :
                    /\ tasks'[i].id = tasks[i].id
                    /\ tasks'[i].createdAt = tasks[i].createdAt
        /\ EditStep =>
             \A i \in 1..Len(tasks) :
                 IF tasks[i].id = editingTask.t.id
                 THEN CarriesForm(tasks'[i], form)
                 ELSE tasks'[i] = tasks[i] ]_vars

\* a task created at time 0 has been edited later, next to stored tasks
C14_Witness ==
    /\ lastOp.op = "handleSubmit"
    /\ ~isModalOpen
    /\ nextId = 2
    /\ now > 0
    /\ Len(tasks) = 3
    /\ tasks[1].id = randomUUID(1) /\ tasks[1].createdAt = 0
    /\ tasks[1].title = <<"B">> /\ tasks[1].status = "Done"
    /\ tasks[2] = StoredTasks[2]

\* l is made of tasks of m, in the order they have in m
IsSubSequence(l, m) ==
    \E f \in [1..Len(l) -> 1..Len(m)] :
        /\ \A j \in 1..Len(l) : l[j] = m[f[j]]
        /\ \A j, k \in 1..Len(l) : j < k => f[j] < f[k]

\* C15: a confirmed delete removes every task with the target id and no
\* other task; the tasks that remain are unchanged and in their previous
\* order.
C15_DeleteRemovesTarget ==
    [][ DeleteStep =>
          /\ deleteTargetId \notin Ids(tasks')
          /\ Len(tasks') = Cardinality({i \in 1..Len(tasks) : tasks[i].id # deleteTargetId})
          /\ IsSubSequence(tasks', tasks) ]_vars

\* the two stored tasks with one id have been deleted from under a created one
C15_Witness ==
    /\ lastOp = Op("performDelete", "id-9", "")
    /\ Len(tasks) = 1
    /\ tasks[1].id = randomUUID(1)
    /\ storage = JSONstringify(tasks)

\* the step is a create, an edit, a status change or a delete
MutationStep ==
    \/ lastOp'.op = "handleSubmit" /\ ~Blank(form.title)
    \/ lastOp'.op = "updateTaskStatus"
    \/ DeleteStep

\* C16: when a create, an edit, a status change or a delete has completed,
\* the stored blob is the serialization of the whole list in memory, and
\* from then on the mounted page never holds a list that differs from the
\* stored one.
C16_SavedAfterMutation ==
    /\ [][ MutationStep => storage' = JSONstringify(tasks') ]_vars
    /\ []((mounted /\ storage.kind = "array") => storage = JSONstringify(tasks))

\* a status change has been saved, of a list with a task without deadline
C16_Witness ==
    /\ lastOp.op = "updateTaskStatus"
    /\ tasks # <<>>
    /\ \E i \in 1..Len(tasks) : tasks[i].deadline = Undefined
    /\ storage = JSONstringify(tasks)

\* C17: the list a reloaded page loads is the list the page had when it was
\* reloaded: the same tasks with the same fields in the same order (so a
\* deleted task does not come back).
C17_ReloadRoundTrip ==
    (lastOp.op = "load" /\ snapshot.taken) => tasks = snapshot.tasks

\* a page reloaded right after a delete that left a created task
C17_Witness ==
    /\ lastOp.op = "load"
    /\ snapshot.taken
    /\ snapshot.after = "performDelete"
    /\ nextId > 1
    /\ tasks # <<>>
    /\ \E i \in 1..Len(tasks) : tasks[i].deadline = Undefined

\* C18: the load at startup leaves the list empty when the blob is absent,
\* does not parse or is no array, and makes the list the blob's array
\* otherwise; it reaches no error state and does not write the blob.
C18_LoadTolerant ==
    [][ lastOp'.op = "load" =>
          /\ storage' = storage
          /\ ~crashed'
          /\ IF storage.kind = "array"
             THEN /\ Len(tasks') = Len(storage.items)
                  /\ \A i \in 1..Len(tasks') : toJSON(tasks'[i]) = storage.items[i]
             ELSE tasks' = <<>> ]_vars

\* the page has started over a blob that does not parse
C18_Witness ==
    /\ lastOp.op = "load"
    /\ storage.kind = "invalid"
    /\ tasks = <<>>
    /\ mounted /\ ~crashed

\* C19: a submit with an empty or blank title changes nothing, in create
\* mode and in edit mode: not the list, the blob, the form, the task being
\* edited or whether the modal is open.
C19_BlankSubmitNoOp ==
    [][ (lastOp'.op = "handleSubmit" /\ Blank(form.title)) =>
          UNCHANGED <<tasks, storage, form, editingTask, isModalOpen>> ]_vars

\* a blank title has been submitted in edit mode
C19_Witness ==
    /\ lastOp.op = "handleSubmit"
    /\ isModalOpen
    /\ ~editingTask.isNull
    /\ form.title = <<" ">>

(***************************************************************************)
(* The modals and the keyboard (SpecModal).                                *)
(***************************************************************************)
\* C20: after Escape has been pressed no modal is open, wherever the focus
\* was (the form's title input and description textarea included).
C20_EscapeClosesModals ==
    (lastOp.op = "onKey" /\ lastOp.arg = "Escape") =>
        /\ ~isModalOpen
        /\ viewingTask.isNull
        /\ ~showDeleteConfirm

\* the step is a press of "n" with the focus outside / inside a text field
PressNOutside == lastOp' = Op("onKey", "n", "body")
PressNInside == lastOp'.op = "onKey" /\ lastOp'.arg = "n" /\ lastOp'.tag \in {"input", "textarea"}

\* C21: "n" pressed with the focus outside a text field leaves the create
\* modal open: isModalOpen is true, editingTask and viewingTask are null and
\* the form is the default form, whatever was open or edited before; "n"
\* pressed inside a text field changes none of the four.
C21_NOpensCreate ==
    [][ /\ PressNOutside =>
             /\ isModalOpen'
             /\ editingTask' = NoTask
             /\ viewingTask' = NoTask
             /\ form' = defaultForm
        /\ PressNInside =>
             UNCHANGED <<isModalOpen, editingTask, viewingTask, form>> ]_vars

\* "n" has been pressed outside a text field, over the delete confirmation
C21_Witness ==
    /\ lastOp = Op("onKey", "n", "body")
    /\ isModalOpen
    /\ editingTask = NoTask
    /\ form = defaultForm
    /\ showDeleteConfirm

(***************************************************************************)
(* Two tabs (SpecTabs).                                                    *)
(***************************************************************************)
\* the step is a mutation in the first tab / in the second tab
WriteHere == lastOp'.tag = "" /\ MutationStep
WriteThere == lastOp'.tag = "other" /\ lastOp'.op \in {"handleSubmit", "performDelete"}

\* C22: with two tabs on one store, each with the list it loaded at its
\* start, a mutation writes the list of the tab it happens in, which takes
\* no task from the other tab or from the blob, and nothing else writes the
\* blob: the blob is the list of the tab that mutated last.
C22_LastWriteWins ==
    [][ /\ WriteHere =>
             /\ storage' = JSONstringify(tasks')
             /\ Ids(tasks') \subseteq Ids(tasks) \cup {randomUUID(nextId)}
        /\ WriteThere =>
             /\ storage' = JSONstringify(otherTasks')
             /\ Ids(otherTasks') \subseteq Ids(otherTasks) \cup {randomUUID(nextId)}
        /\ ~(WriteHere \/ WriteThere) => storage' = storage ]_vars

\* the second tab has written last, and a task the first tab created after
\* the second tab had loaded is not in the blob
C22_Witness ==
    /\ lastOp = Op("handleSubmit", "", "other")
    /\ mounted /\ otherMounted
    /\ storage = JSONstringify(otherTasks)
    /\ \E i \in 1..Len(tasks) :
         /\ tasks[i].id = randomUUID(1)
         /\ tasks[i].id \notin Ids(otherTasks)

(***************************************************************************)
(* Deadlines against the base score (SpecDeadline).                        *)
(***************************************************************************)
\* the tasks a scored task is compared with: not Done, with a deadline
Rivals == {u \in DeadlineInputs : u.status # "Done" /\ HasDate(u)}

Scored(e) == e.done /\ e.task.status # "Done" /\ HasDate(e.task)

\* C23 as stated: of two tasks that are not Done and have a deadline, the
\* one with fewer days left has the higher score.
C23_Original ==
    Scored(lastEval) =>
        \A u \in Rivals :
            DaysOf(lastEval) < daysUntilDeadline(u.deadline, lastEval.at, dst).v
                => lastEval.score > calculateScore(u, lastEval.at, dst)

\* C23: of two tasks that are not Done and have a deadline, the one with at
\* least two days fewer left has the strictly higher score, whatever the
\* impact (1-5), urgency (1-5) and status (Inbox, Doing, Waiting) of the two.
C23_TwoDaysDominate ==
    Scored(lastEval) =>
        \A u \in Rivals :
            DaysOf(lastEval) + 2 <= daysUntilDeadline(u.deadline, lastEval.at, dst).v
                => lastEval.score > calculateScore(u, lastEval.at, dst)

\* the lowest base score, due today, has been scored; rivals two days on exist
C23_Witness ==
    /\ Scored(lastEval)
    /\ lastEval.task.status = "Waiting"
    /\ lastEval.task.impact = 1 /\ lastEval.task.urgency = 1
    /\ DaysOf(lastEval) = 0
    /\ lastEval.score = 993
    /\ \E u \in Rivals :
         /\ daysUntilDeadline(u.deadline, lastEval.at, dst).v = 2
         /\ calculateScore(u, lastEval.at, dst) = 975

\* C24: the score is not clamped: a task that is not Done, with a deadline
\* d days away, scores less than it would without the deadline when d > 50;
\* when d >= 51 its score is negative, its level is Low, and the default
\* order shows it after every Done task.
C24_NeverClamped ==
    Scored(lastEval) =>
        LET d == DaysOf(lastEval)
            bare == [lastEval.task EXCEPT !.deadline = Undefined]
            shown == View
        IN  /\ d > 50 => lastEval.score < calculateScore(bare, lastEval.at, dst)
            /\ d >= 51 =>
                 /\ lastEval.score < 0
                 /\ lastEval.level = "Low"
                 /\ \A p, q \in 1..Len(shown) :
                        (shown[p] = lastEval.task /\ shown[q].status = "Done") => q < p

\* the highest base score, due in 51 days, is shown after the Done task
\* that follows it in the stored list
C24_Witness ==
    /\ Scored(lastEval)
    /\ DaysOf(lastEval) = 51
    /\ lastEval.score = -5
    /\ tasks = <<lastEval.task, Catalogue[4]>>
    /\ View = <<Catalogue[4], lastEval.task>>

(***************************************************************************)
(* The delete confirmation (SpecModal).                                    *)
(***************************************************************************)
\* C25: a task leaves the list only in performDelete, with the confirmation
\* shown and the task's id as the target; while the confirmation is shown
\* there is a target; the confirmation's Cancel and the Escape key leave
\* the list and the blob as they are; and performDelete without a target
\* changes neither.
C25_DeleteOnlyConfirmed ==
    /\ [](showDeleteConfirm => deleteTargetId # "null")
    /\ [][ /\ \A id \in Ids(tasks) \ Ids(tasks') :
                /\ lastOp'.op = "performDelete"
                /\ showDeleteConfirm
                /\ deleteTargetId = id
           /\ Len(tasks') < Len(tasks) => lastOp'.op = "performDelete"
           /\ (lastOp'.op = "cancelDelete" \/ (lastOp'.op = "onKey" /\ lastOp'.arg = "Escape"))
                => UNCHANGED <<tasks, storage>>
           /\ (lastOp'.op = "performDelete" /\ deleteTargetId = "null")
                => UNCHANGED <<tasks, storage>> ]_vars

\* Escape has closed the confirmation, and the targeted task is still there
C25_Witness ==
    /\ lastOp = Op("onKey", "Escape", "body")
    /\ ~showDeleteConfirm
    /\ deleteTargetId \in Ids(tasks)
    /\ storage = JSONstringify(tasks)

(***************************************************************************)
(* The list of a first visit (SpecFresh).                                  *)
(***************************************************************************)
\* C26: from an empty or absent blob, whatever creates, edits, status
\* changes, deletes and reloads have happened, no two tasks of the list
\* have the same id.
C26_UniqueIds ==
    \A i, j \in 1..Len(tasks) : tasks[i].id = tasks[j].id => i = j

\* two tasks with different ids, one of them with a changed status
C26_Witness ==
    /\ lastOp.op = "updateTaskStatus"
    /\ Len(tasks) = 2
    /\ tasks[1].id = randomUUID(2) /\ tasks[2].id = randomUUID(1)
    /\ tasks[2].status = "Done"

\* C30: from an empty or absent blob, every task of the list has a title
\* that is not empty and neither starts nor ends with a blank, and a submit
\* of a blank title changes neither the list nor the blob.
C30_TitlesTrimmed ==
    /\ [](\A i \in 1..Len(tasks) :
            /\ tasks[i].title # <<>>
            /\ Head(tasks[i].title) # " "
            /\ tasks[i].title[Len(tasks[i].title)] # " ")
    /\ [][ (lastOp'.op = "handleSubmit" /\ Blank(form.title))
             => UNCHANGED <<tasks, storage>> ]_vars

\* a task created from the title " a " has been edited with that title
\* again, under a task created from the title "B"
C30_Witness ==
    /\ lastOp.op = "handleSubmit"
    /\ Len(tasks) = 2
    /\ tasks[1].title = <<"B">>
    /\ tasks[2].title = <<"a">> /\ tasks[2].status = "Done"
    /\ nextId = 3

(***************************************************************************)
(* The sort key that is not set (SpecView).                                *)
(***************************************************************************)
\* C27: whenever no sort key is selected the direction is desc: a step that
\* takes the key away is clearFilters and leaves desc, and no step changes
\* the direction while no key is selected; and after clearFilters the view
\* shows every task of the list, by descending score, equal scores in the
\* order of the list.
C27_NullKeyIsDesc ==
    /\ [](sortBy = "null" => sortDir = "desc")
    /\ [][ /\ (sortBy # "null" /\ sortBy' = "null")
                => (lastOp'.op = "clearFilters" /\ sortDir' = "desc")
           /\ sortBy = "null" => sortDir' = sortDir ]_vars
    /\ []((lastOp.op = "clearFilters" /\ sortBy = "null" /\ ~hideDone) =>
            LET v == View
            IN  SameTasks(v, tasks) /\ DefaultOrder(v))

\* clearFilters has taken away the key of an ascending sort that hid the
\* Done task: the view shows the three tasks again, the Done one last
C27_Witness ==
    /\ lastOp.op = "clearFilters"
    /\ sortBy = "null" /\ sortDir = "desc" /\ ~hideDone
    /\ now > 0
    /\ tasks = <<Catalogue[4], Catalogue[1], Catalogue[3]>>
    /\ View = <<Catalogue[3], Catalogue[1], Catalogue[4]>>

(***************************************************************************)
(* The controls and the modals leave the store alone (SpecReadOnly).       *)
(***************************************************************************)
\* the handlers that open, cancel or close a modal, clear the filters or
\* show and hide the insights
ReadOnlyOps ==
    {"clearFilters", "toggleInsights", "closeInsights",
     "openModal", "closeModal", "cancelForm",
     "viewTask", "closeView", "editRow", "editViewed",
     "confirmDelete", "cancelDelete"}

\* C28: a step that changes the quick filter, the status filter, the area
\* filter, the search text, the hide-done flag, the sort key or direction
\* or the insights flag, and a step of a handler that clears the filters or
\* opens, cancels or closes the form, the detail view or the delete
\* confirmation, leaves the task list and the stored blob as they are.
C28_ReadOnly ==
    [][ ( \/ filterVars' # filterVars
          \/ sortVars' # sortVars
          \/ showInsights' # showInsights
          \/ lastOp'.op \in ReadOnlyOps )
          => UNCHANGED <<tasks, storage>> ]_vars

\* the delete confirmation has been cancelled over a list sorted by impact,
\* ascending: the task and the blob are those that were loaded
C28_Witness ==
    /\ lastOp.op = "cancelDelete"
    /\ sortBy = "impact" /\ sortDir = "asc"
    /\ tasks = <<StoredTasks[1]>>
    /\ storage = JSONstringify(tasks)

(***************************************************************************)
(* An edit keeps every task in its place (Spec).                           *)
(***************************************************************************)
\* the ids the program hands out or loads that no task of the list has
StaleIds ==
    ({randomUUID(n) : n \in 1..MaxCreates} \cup Ids(StoredTasks)) \ Ids(tasks)

\* C29: a submit of the edit form and a status change leave the number of
\* tasks and the id at every position as they were; and an update for an id
\* that no task of the list has gives the list back as it is.
C29_EditKeepsPlaces ==
    /\ [][ (EditStep \/ lastOp'.op = "updateTaskStatus") =>
             /\ Len(tasks') = Len(tasks)
             /\ \A i \in 1..Len(tasks) : tasks'[i].id = tasks[i].id ]_vars
    /\ [](\A id \in StaleIds, f \in FormChoices : updatedTasks(tasks, id, f) = tasks)

\* the stored task has been edited under a task that was created after it
\* was loaded, and is still the second of the two
C29_Witness ==
    /\ lastOp.op = "handleSubmit"
    /\ Len(tasks) = 2
    /\ tasks[1].id = randomUUID(1)
    /\ tasks[2].id = "id-8" /\ tasks[2].title = <<"a">>
    /\ StaleIds # {}

====
